---- MODULE Spec2Model ----
(***************************************************************************)
(* Model of the Obsidian <-> Todoist synchronisation plugin.               *)
(*                                                                         *)
(* A document line is a sequence of tokens <<kind, value>>; white space    *)
(* between tokens is implicit.  Kinds: "indent" (leading white space),     *)
(* "bullet", "box" (the checkbox), "word", "tag" (a #hashtag), "prio",     *)
(* "due", "sched", "start", "done", "textdue" (date tokens) and "id" (the  *)
(* <!-- todoist-id:N --> comment).  Line numbers are 1-based here and      *)
(* 0-based in the source.  The description block of a task and the file    *)
(* modification time are carried through the engine untouched and are left *)
(* out of the task records.                                                *)
(***************************************************************************)
EXTENDS Integers, Sequences, FiniteSets, TLC

\* ------------------------------------------------------------------ bounds
MaxPasses == 1
MaxRepeatPasses == 2
MaxFailures == 1
MaxCommands == 1
MaxRemoteTasks == 5
MaxLabels == 2
\* the page size of the remote service; getTasks asks for 100
PageLimit == 2

\* --------------------------------------------------------------- constants
NONE == 1
LOW == 2
MEDIUM == 3
HIGH == 4

NoId == "none"
NoDate == "nodate"
IdStr == <<"1", "2", "3", "4", "5", "6", "7", "8", "9">>
FirstFreshId == 3

Files == <<"f1", "f2">>
FileSet == {Files[k] : k \in 1..Len(Files)}
\* activation records of performSync; a call takes the lowest free one
Frames == {1, 2}
\* the activation records of createTaskFromLine, getTasks and verifyToken
CommandFrame == 3
ListFrame == 4
VerifyFrame == 5
\* one application of the functions of task-parser.ts
CodecFrame == 6
\* the data file of the plugin, read by loadData and written by saveData
StoreFrame == 7
Activations ==
  Frames \cup {CommandFrame, ListFrame, VerifyFrame, CodecFrame, StoreFrame}
Policies == {"obsidian-wins", "todoist-wins", "ask-user"}

\* ------------------------------------------------------------------ tokens
Indent == <<"indent", "  ">>
Bul == <<"bullet", "-">>
BoxOpen == <<"box", " ">>
BoxDone == <<"box", "x">>
W(a) == <<"word", a>>
Tag(n) == <<"tag", n>>
SyncTag == Tag("todoist")
Prio(k) == <<"prio", k>>
Due(d) == <<"due", d>>
Num == <<"number", "1.">>
IdTok(n) == <<"id", n>>

Kind(t) == t[1]
Val(t) == t[2]

Min(S) == CHOOSE m \in S : \A n \in S : m <= n

\* s.replace(re, '') for a regular expression without the g flag
RemoveFirst(s, P(_)) ==
  LET hits == {k \in 1..Len(s) : P(s[k])}
  IN IF hits = {} THEN s
     ELSE SubSeq(s, 1, Min(hits) - 1) \o SubSeq(s, Min(hits) + 1, Len(s))

\* s.replace(re, t) for a regular expression without the g flag
ReplaceFirst(s, P(_), R(_)) ==
  LET hits == {k \in 1..Len(s) : P(s[k])}
  IN IF hits = {} THEN s
     ELSE [s EXCEPT ![Min(hits)] = R(s[Min(hits)])]

FirstVal(s, P(_)) == Val(s[Min({k \in 1..Len(s) : P(s[k])})])
Has(s, P(_)) == \E k \in 1..Len(s) : P(s[k])

\* String.prototype.toLowerCase on the tag names used here
Lower(n) ==
  CASE n = "Todoist" -> "todoist"
    [] n = "L1" -> "l1"
    [] OTHER -> n

\* String.prototype.trim: leading white space is the indent token
Trim(s) == IF Len(s) > 0 /\ Kind(s[1]) = "indent" THEN Tail(s) ELSE s

\* ------------------------------------------------------------- task-parser
IsId(t) == Kind(t) = "id"
IsSyncTag(t) == Kind(t) = "tag" /\ Lower(Val(t)) = Lower(Val(SyncTag))

\* PATTERNS.task
IsTaskLine(line) ==
  LET body == Trim(line)
  IN /\ Len(body) >= 2
     /\ Kind(body[1]) = "bullet" /\ Val(body[1]) \in {"-", "*"}
     /\ Kind(body[2]) = "box" /\ Val(body[2]) \in {" ", "x", "X"}

TaskBody(line) == Trim(line)
TaskContent(line) == SubSeq(TaskBody(line), 3, Len(TaskBody(line)))

extractDueDate(content) ==
  LET isDue(t) == Kind(t) = "due"
      isSched(t) == Kind(t) = "sched"
      isText(t) == Kind(t) = "textdue"
  IN IF Has(content, isDue) THEN FirstVal(content, isDue)
     ELSE IF Has(content, isSched) THEN FirstVal(content, isSched)
     ELSE IF Has(content, isText) THEN FirstVal(content, isText)
     ELSE NoDate

extractPriority(content) ==
  LET isP(k) == \E n \in 1..Len(content) : content[n] = Prio(k)
  IN IF isP("high") THEN HIGH
     ELSE IF isP("medium") THEN MEDIUM
     ELSE IF isP("low") THEN LOW
     ELSE NONE

extractLabels(content) ==
  LET isLabel(t) == Kind(t) = "tag" /\ Lower(Val(t)) # Lower(Val(SyncTag))
      tags == SelectSeq(content, isLabel)
  IN [k \in 1..Len(tags) |-> Lower(Val(tags[k]))]

\* the classes of token that cleanTaskContent removes at their first occurrence
\* only: the replace calls of lines 141 and 148-158 have no g flag
FirstOnly(t) ==
  IF Kind(t) \in {"id", "due", "sched", "start", "done", "textdue"}
  THEN Kind(t)
  ELSE IF Kind(t) = "prio" THEN Val(t) ELSE ""

\* the replace calls remove tokens of disjoint classes, so the token at k
\* goes when it is a sync tag (g flag) or the first token of its class
cleanTaskContent(content) ==
  LET drop(k) ==
        \/ IsSyncTag(content[k])
        \/ /\ FirstOnly(content[k]) # ""
           /\ \A n \in 1..(k - 1) :
                FirstOnly(content[n]) # FirstOnly(content[k])
      kept == {k \in 1..Len(content) : ~drop(k)}
      nth(n) == CHOOSE k \in kept : Cardinality({m \in kept : m < k}) = n - 1
  IN [n \in 1..Cardinality(kept) |-> content[nth(n)]]

\* the case in which parseTaskLine returns a task rather than null
IsSyncedTaskLine(line) ==
  IsTaskLine(line) /\ Has(TaskContent(line), IsSyncTag)

parseTaskLine(line, lineNumber, filePath) ==
  LET tc == TaskContent(line)
  IN [lineNumber |-> lineNumber,
      filePath |-> filePath,
      content |-> cleanTaskContent(tc),
      isCompleted |-> Val(TaskBody(line)[2]) \in {"x", "X"},
      todoistId |-> IF Has(tc, IsId) THEN FirstVal(tc, IsId) ELSE NoId,
      dueDate |-> extractDueDate(tc),
      priority |-> extractPriority(tc),
      labels |-> extractLabels(tc)]

RECURSIVE parseFrom(_, _, _)
parseFrom(lines, k, filePath) ==
  IF k > Len(lines) THEN <<>>
  ELSE (IF IsSyncedTaskLine(lines[k])
        THEN <<parseTaskLine(lines[k], k, filePath)>>
        ELSE <<>>) \o parseFrom(lines, k + 1, filePath)

parseTasksFromContent(lines, filePath) == parseFrom(lines, 1, filePath)

buildTaskLine(task) ==
  <<Bul, IF task.isCompleted THEN BoxDone ELSE BoxOpen>>
  \o task.content
  \o <<SyncTag>>
  \o [k \in 1..Len(task.labels) |-> Tag(task.labels[k])]
  \o (IF task.priority = HIGH THEN <<Prio("high")>>
      ELSE IF task.priority = MEDIUM THEN <<Prio("medium")>>
      ELSE IF task.priority = LOW THEN <<Prio("low")>>
      ELSE <<>>)
  \o (IF task.dueDate # NoDate THEN <<Due(task.dueDate)>> ELSE <<>>)
  \o (IF task.todoistId # NoId THEN <<IdTok(task.todoistId)>> ELSE <<>>)

addTodoistIdToLine(line, todoistId) ==
  Append(Trim(RemoveFirst(line, IsId)), IdTok(todoistId))

\* /\[\s\]/ and /\[[xX]\]/ match the first such glyph anywhere in the line,
\* the checkbox or the same three characters inside the task text
updateTaskCompletion(line, isCompleted) ==
  LET open(t) == t = BoxOpen \/ t = W("[ ]")
      closed(t) == t \in {BoxDone, <<"box", "X">>, W("[x]"), W("[X]")}
      toX(t) == IF Kind(t) = "box" THEN BoxDone ELSE W("[x]")
      toO(t) == IF Kind(t) = "box" THEN BoxOpen ELSE W("[ ]")
  IN IF isCompleted THEN ReplaceFirst(line, open, toX)
     ELSE ReplaceFirst(line, closed, toO)

\* the hash of the empty string, stored by createTaskFromLine as ''
EmptyHash == <<>>

\* the string that is hashed; the 32-bit folding of it is not modelled
generateContentHash(task) ==
  <<task.content, task.isCompleted, task.dueDate, task.priority, task.labels>>

\* -------------------------------------------------------------------- maps
EmptyMap == [x \in {} |-> 0]
Put(m, k, v) == [x \in DOMAIN m \cup {k} |-> IF x = k THEN v ELSE m[x]]
Del(m, k) == [x \in DOMAIN m \ {k} |-> m[x]]

\* ------------------------------------------------------------------- state
VARIABLES
  vault,              \* document store: file path -> sequence of lines
  remote,             \* the remote service: task id -> task
  nextId,             \* index in IdStr of the id the service hands out next
  initialized,        \* TodoistService.api !== null
  conflictResolution, \* settings.conflictResolution
  isSyncing,          \* SyncEngine.isSyncing
  syncState,          \* SyncEngine.syncState
  pendingConflicts,   \* SyncEngine.pendingConflicts
  now,                \* Date.now(): advances when a pass is accepted
  passesLeft,         \* accepted passes the run may still start
  pc,                 \* per caller: the await its performSync call is at
  loc,                \* per caller: the local variables of performSync
  lastResult,         \* the most recent value returned by performSync
  calls,              \* gateway calls attempted by the current pass
  writes,             \* vault.modify calls of the current pass that resolved
  failures            \* remote and I/O failures injected so far

vars == <<vault, remote, nextId, initialized, conflictResolution, isSyncing,
          syncState, pendingConflicts, now, passesLeft, pc, loc, lastResult,
          calls, writes, failures>>

ZeroResult ==
  [created |-> 0, updated |-> 0, completed |-> 0, conflicts |-> 0,
   errors |-> <<>>]

NoLocals ==
  [result |-> ZeroResult, todoistTaskMap |-> EmptyMap, scanIdx |-> 1,
   obsidianTasks |-> <<>>, syncedIds |-> <<>>, syncedMap |-> EmptyMap,
   newObsidianTasks |-> <<>>, i |-> 1, j |-> 1, newId |-> NoId, buf |-> <<>>,
   why |-> "", reconciled |-> <<>>,
   before |-> [vault |-> EmptyMap, remote |-> EmptyMap, tasks |-> EmptyMap]]

\* the local variables of createTaskFromLine and the value it returned last
NoCommand ==
  [filePath |-> "", lineNumber |-> 0, lineContent |-> <<>>, isTask |-> FALSE,
   prefix |-> <<>>, content |-> <<>>, cleanContent |-> <<>>, newId |-> NoId,
   buf |-> <<>>, requests |-> 0, served |-> 0,
   result |-> [success |-> FALSE, message |-> <<>>]]

\* the local variables of getTasks and the value it returned last
NoList ==
  [format |-> "", allTasks |-> <<>>, cursor |-> 0, requests |-> 0,
   result |-> [kind |-> "none", tasks |-> <<>>, requests |-> 0]]

\* the value verifyToken returned last and the error that led to it
NoVerify == [result |-> "none", cause |-> "none"]

\* a ParsedObsidianTask with nothing in it
NoTask ==
  [lineNumber |-> 0, filePath |-> "", content |-> <<>>, isCompleted |-> FALSE,
   todoistId |-> NoId, dueDate |-> NoDate, priority |-> NONE, labels |-> <<>>]

\* the arguments and the value of the function applied last, and what the
\* parser reads back from a line that was built
NoCodec ==
  [op |-> "none", task |-> NoTask, line |-> <<>>, flag |-> FALSE,
   todoistTask |-> [content |-> <<>>, isCompleted |-> FALSE, priority |-> 0,
                    due |-> NoDate],
   out |-> <<>>, parsed |-> NoTask]

\* main.ts: settings.syncState is the sync state found in the data file by
\* loadSettings, stored is the one in the file now (a file without one loads
\* as the empty state), saved is the state handed to the last saveSyncState
StoreOf(state) == [loaded |-> state, stored |-> state, saved |-> state]

\* ------------------------------------------------------------ initial data
LineNewOpen == <<Bul, BoxOpen, W("A"), SyncTag>>
LineNewDone == <<Indent, Bul, BoxDone, W("B"), SyncTag>>
LineOneOpen == <<Bul, BoxOpen, W("A"), SyncTag, IdTok("1")>>
LineOneDone == <<Bul, BoxDone, W("A"), SyncTag, IdTok("1")>>
LineTwoOpen == <<Bul, BoxOpen, W("B"), SyncTag, Prio("high"), IdTok("2")>>
LineNote == <<W("note")>>

SampleLines ==
  {LineNewOpen, LineNewDone, LineOneOpen, LineOneDone, LineTwoOpen, LineNote}
MkVault(a, b) == [f \in FileSet |-> IF f = Files[1] THEN a ELSE b]
Vaults ==
  {MkVault(<<a, b>>, <<LineTwoOpen>>) :
     a \in SampleLines, b \in {LineNewDone, LineOneOpen}}
SmallVaults == {MkVault(<<a, LineNote>>, <<LineTwoOpen>>) : a \in SampleLines}
FairVaults ==
  {MkVault(<<a, LineNewDone>>, <<LineNote>>) : a \in {LineOneOpen, LineOneDone}}

RemoteTask(c, done, p, d) ==
  [content |-> c, isCompleted |-> done, priority |-> p, due |-> d]

Absent == RemoteTask(<<>>, FALSE, 0, NoDate)
RemoteOne ==
  {Absent, RemoteTask(<<W("A")>>, FALSE, NONE, NoDate),
   RemoteTask(<<W("A")>>, TRUE, NONE, NoDate),
   RemoteTask(<<W("C")>>, FALSE, NONE, "2025-01-01")}
RemoteTwo == {Absent, RemoteTask(<<W("B")>>, FALSE, HIGH, NoDate)}

MkRemote(a, b) ==
  [x \in (IF a = Absent THEN {} ELSE {"1"}) \cup
         (IF b = Absent THEN {} ELSE {"2"}) |-> IF x = "1" THEN a ELSE b]

Remotes == {MkRemote(a, b) : a \in RemoteOne, b \in RemoteTwo}

SyncedTask(id, filePath, lineNumber, hash, at, oc, tc) ==
  [todoistId |-> id, filePath |-> filePath, lineNumber |-> lineNumber,
   contentHash |-> hash, lastSynced |-> at, obsidianCompleted |-> oc,
   todoistCompleted |-> tc]

InitWith(vaults, remotes, budget) ==
  /\ vault \in vaults
  /\ remote \in remotes
  /\ nextId = FirstFreshId
  /\ initialized \in BOOLEAN
  /\ conflictResolution \in Policies
  /\ isSyncing = FALSE
  /\ syncState \in
       {[tasks |-> [x \in D |-> SyncedTask(x, Files[1], 1, EmptyHash, 0, FALSE, FALSE)],
         lastFullSync |-> 0] : D \in {{}, {"1", "2"}}}
  /\ pendingConflicts = <<>>
  /\ now = 0
  /\ passesLeft = budget
  /\ pc = [p \in Activations |-> "idle"]
  /\ loc = [p \in Activations |->
             CASE p = CommandFrame -> NoCommand
               [] p = ListFrame -> NoList
               [] p = VerifyFrame -> NoVerify
               [] p = CodecFrame -> NoCodec
               [] p = StoreFrame -> StoreOf(syncState)
               [] OTHER -> NoLocals]
  /\ lastResult = [kind |-> "none", by |-> 0, res |-> ZeroResult]
  /\ calls = <<>>
  /\ writes = <<>>
  /\ failures = 0

\* one pass over every combination of the sample lines
Init == InitWith(Vaults, Remotes, MaxPasses)

\* repeated passes over the vaults with one sample line
InitRepeat == InitWith(SmallVaults, Remotes, MaxRepeatPasses)

\* repeated passes over two vaults, for the properties that need fairness
InitFair ==
  InitWith(FairVaults, {MkRemote(a, Absent) : a \in RemoteOne \ {Absent}},
           MaxRepeatPasses)

\* ------------------------------------------------------------- performSync
CanFail == failures < MaxFailures

Call(op, id, task, ok) ==
  [op |-> op, id |-> id, filePath |-> task.filePath,
   lineNumber |-> task.lineNumber, todoistId |-> task.todoistId, ok |-> ok]

Write(task, why, id) ==
  [filePath |-> task.filePath, lineNumber |-> task.lineNumber, why |-> why,
   id |-> id]

\* `return result` of the performSync call of caller p
LowestFree(p) == pc[p] = "idle" /\ \A q \in Frames : pc[q] = "idle" => p <= q

Return(p, kind, res) ==
  /\ pc' = [pc EXCEPT ![p] = "idle"]
  /\ lastResult' = [kind |-> kind, by |-> p, res |-> res]

\* variant of Rejected: the call waits for the running pass instead
RejectedQueued(p) ==
  /\ LowestFree(p)
  /\ isSyncing
  /\ pc' = [pc EXCEPT ![p] = "fetch"]
  /\ loc' = [loc EXCEPT ![p] = NoLocals]
  /\ UNCHANGED <<vault, writes, remote, nextId, initialized,
                 conflictResolution, isSyncing, syncState, pendingConflicts,
                 now, passesLeft, lastResult, calls, failures>>

\* lines 76-79: the call finds isSyncing set
Rejected(p) ==
  /\ LowestFree(p)
  /\ isSyncing
  /\ Return(p, "rejected",
            [ZeroResult EXCEPT !.errors = <<"Sync already in progress">>])
  /\ UNCHANGED <<vault, writes, remote, nextId, initialized,
                 conflictResolution, isSyncing, syncState, pendingConflicts,
                 now, passesLeft, loc, calls, failures>>

\* variant of NotConfigured: the guard is set before the api is looked at
NotConfiguredSetsGuard(p) ==
  /\ LowestFree(p)
  /\ ~isSyncing
  /\ ~initialized
  /\ isSyncing' = TRUE
  /\ Return(p, "unconfigured",
            [ZeroResult EXCEPT !.errors = <<"Todoist API not configured">>])
  /\ UNCHANGED <<vault, writes, remote, nextId, initialized,
                 conflictResolution, syncState, pendingConflicts, now,
                 passesLeft, loc, calls, failures>>

\* lines 81-84: the service has no api object
NotConfigured(p) ==
  /\ LowestFree(p)
  /\ ~isSyncing
  /\ ~initialized
  /\ Return(p, "unconfigured",
            [ZeroResult EXCEPT !.errors = <<"Todoist API not configured">>])
  /\ UNCHANGED <<vault, writes, remote, nextId, initialized,
                 conflictResolution, isSyncing, syncState, pendingConflicts,
                 now, passesLeft, loc, calls, failures>>

\* what a pass finds when it is accepted, kept to compare its end with
Before == [vault |-> vault, remote |-> remote, tasks |-> syncState.tasks]

\* variant of StartSync: line 86 is missing, the guard is never set
StartSyncNoGuard(p) ==
  /\ LowestFree(p)
  /\ ~isSyncing
  /\ initialized
  /\ passesLeft > 0
  /\ passesLeft' = passesLeft - 1
  /\ now' = now + 1
  /\ pc' = [pc EXCEPT ![p] = "fetch"]
  /\ loc' = [loc EXCEPT ![p] = [NoLocals EXCEPT !.before = Before]]
  /\ calls' = <<>>
  /\ writes' = <<>>
  /\ UNCHANGED <<vault, remote, nextId, initialized, isSyncing,
                 conflictResolution, syncState, pendingConflicts, lastResult,
                 failures>>

\* lines 86-96: the guard is set and the call suspends in getTasks
StartSync(p) ==
  /\ LowestFree(p)
  /\ ~isSyncing
  /\ initialized
  /\ passesLeft > 0
  /\ passesLeft' = passesLeft - 1
  /\ isSyncing' = TRUE
  /\ now' = now + 1
  /\ pc' = [pc EXCEPT ![p] = "fetch"]
  /\ loc' = [loc EXCEPT ![p] = [NoLocals EXCEPT !.before = Before]]
  /\ calls' = <<>>
  /\ writes' = <<>>
  /\ UNCHANGED <<vault, remote, nextId, initialized,
                 conflictResolution, syncState, pendingConflicts, lastResult,
                 failures>>

\* lines 96-108: getTasks resolves; todoistTaskMap is built
FetchOk(p) ==
  /\ pc[p] = "fetch"
  /\ initialized
  /\ loc' = [loc EXCEPT ![p].todoistTaskMap = remote]
  /\ pc' = [pc EXCEPT ![p] = "scan"]
  /\ UNCHANGED <<vault, writes, remote, nextId, initialized,
                 conflictResolution, isSyncing, syncState, pendingConflicts,
                 now, passesLeft, lastResult, calls, failures>>

\* variant of FetchFail: the early return goes through line 184 first
FetchFailStampsSync(p) ==
  /\ pc[p] = "fetch"
  /\ CanFail \/ ~initialized
  /\ failures' = IF initialized THEN failures + 1 ELSE failures
  /\ isSyncing' = FALSE
  /\ syncState' = [syncState EXCEPT !.lastFullSync = now]
  /\ loc' = [loc EXCEPT ![p].result.errors =
                           Append(@, "Failed to fetch Todoist tasks")]
  /\ Return(p, "aborted", loc'[p].result)
  /\ UNCHANGED <<vault, writes, remote, nextId, initialized,
                 conflictResolution, pendingConflicts, now, passesLeft, calls>>

\* lines 98-103: getTasks rejects
FetchFail(p) ==
  /\ pc[p] = "fetch"
  /\ CanFail \/ ~initialized
  /\ failures' = IF initialized THEN failures + 1 ELSE failures
  /\ isSyncing' = FALSE
  /\ loc' = [loc EXCEPT ![p].result.errors =
                           Append(@, "Failed to fetch Todoist tasks")]
  /\ Return(p, "aborted", loc'[p].result)
  /\ UNCHANGED <<vault, writes, remote, nextId, initialized,
                 conflictResolution, syncState, pendingConflicts, now,
                 passesLeft, calls>>

\* the ids of the linked tasks in the order Map.set first saw them
RECURSIVE FirstSeen(_, _)
FirstSeen(tasks, seen) ==
  IF tasks = <<>> THEN <<>>
  ELSE LET id == Head(tasks).todoistId
       IN IF id = NoId \/ id \in seen THEN FirstSeen(Tail(tasks), seen)
          ELSE <<id>> \o FirstSeen(Tail(tasks), seen \cup {id})

Max(S) == CHOOSE m \in S : \A n \in S : m >= n

\* variant of SyncedObsidianTasks: Map.set is skipped for an id already seen
SyncedObsidianTasksFirstWins(tasks) ==
  LET ids == {tasks[k].todoistId : k \in 1..Len(tasks)} \ {NoId}
  IN [id \in ids |->
        tasks[Min({k \in 1..Len(tasks) : tasks[k].todoistId = id})]]

\* lines 116-125: syncedObsidianTasks, a later line replaces an earlier one
SyncedObsidianTasks(tasks) ==
  LET ids == {tasks[k].todoistId : k \in 1..Len(tasks)} \ {NoId}
  IN [id \in ids |->
        tasks[Max({k \in 1..Len(tasks) : tasks[k].todoistId = id})]]

\* variant of NewObsidianTasks: a task is new when the sync state has no
\* record of its id
NewByRecord(tasks) ==
  LET isNew(t) == t.todoistId \notin DOMAIN syncState.tasks
  IN SelectSeq(tasks, isNew)

\* lines 116-125: newObsidianTasks
NewObsidianTasks(tasks) ==
  LET isNew(t) == t.todoistId = NoId
  IN SelectSeq(tasks, isNew)

\* where the pass goes when the loops are at (i, j)
LoopPc(l) ==
  IF l.i <= Len(l.newObsidianTasks) THEN "create"
  ELSE IF l.j <= Len(l.syncedIds) THEN "linked"
  ELSE "finish"

\* lines 199-219 and 116-127: one file of the scan is done
Scanned(l, tasks) ==
  LET all == l.obsidianTasks \o tasks
  IN IF l.scanIdx < Len(Files)
     THEN [l EXCEPT !.obsidianTasks = all, !.scanIdx = @ + 1]
     ELSE [l EXCEPT !.obsidianTasks = all, !.scanIdx = @ + 1,
                    !.syncedIds = FirstSeen(all, {}),
                    !.syncedMap = SyncedObsidianTasks(all),
                    !.newObsidianTasks = NewObsidianTasks(all)]

ScanPc(l) == IF l.scanIdx <= Len(Files) THEN "scan" ELSE LoopPc(l)

\* lines 203-212: vault.read of the next file resolves
ScanRead(p) ==
  /\ pc[p] = "scan"
  /\ LET f == Files[loc[p].scanIdx]
         l == Scanned(loc[p], parseTasksFromContent(vault[f], f))
     IN /\ loc' = [loc EXCEPT ![p] = l]
        /\ pc' = [pc EXCEPT ![p] = ScanPc(l)]
  /\ UNCHANGED <<vault, writes, remote, nextId, initialized,
                 conflictResolution, isSyncing, syncState, pendingConflicts,
                 now, passesLeft, lastResult, calls, failures>>

\* lines 213-215: vault.read of the next file rejects, the file is skipped
ScanSkip(p) ==
  /\ pc[p] = "scan"
  /\ CanFail
  /\ failures' = failures + 1
  /\ LET l == Scanned(loc[p], <<>>)
     IN /\ loc' = [loc EXCEPT ![p] = l]
        /\ pc' = [pc EXCEPT ![p] = ScanPc(l)]
  /\ UNCHANGED <<vault, writes, remote, nextId, initialized,
                 conflictResolution, isSyncing, syncState, pendingConflicts,
                 now, passesLeft, lastResult, calls>>

\* variant of SyncThrow: the try has no finally block
SyncThrowKeepsGuard(p) ==
  /\ pc[p] = "scan"
  /\ loc[p].scanIdx = 1
  /\ CanFail
  /\ failures' = failures + 1
  /\ loc' = [loc EXCEPT ![p].result.errors = Append(@, "Sync failed")]
  /\ Return(p, "failed", loc'[p].result)
  /\ UNCHANGED <<vault, writes, remote, nextId, initialized, isSyncing,
                 conflictResolution, syncState, pendingConflicts, now,
                 passesLeft, calls>>

\* lines 186-193: an exception outside the per-task handlers (here: the
\* vault cannot list its files) reaches the outer catch
SyncThrow(p) ==
  /\ pc[p] = "scan"
  /\ loc[p].scanIdx = 1
  /\ CanFail
  /\ failures' = failures + 1
  /\ isSyncing' = FALSE
  /\ loc' = [loc EXCEPT ![p].result.errors = Append(@, "Sync failed")]
  /\ Return(p, "failed", loc'[p].result)
  /\ UNCHANGED <<vault, writes, remote, nextId, initialized,
                 conflictResolution, syncState, pendingConflicts, now,
                 passesLeft, calls>>

\* ---------------------------------------------------------- creation phase
CurNew(l) == l.newObsidianTasks[l.i]

\* variant of CreateErr: the catch is around the loop, not inside it
CreateErrStops(l) ==
  [l EXCEPT !.result.errors = Append(@, "Failed to create task"),
            !.i = Len(l.newObsidianTasks) + 1]

\* lines 136-139: the catch of the creation loop, then the next task
CreateErr(l) ==
  [l EXCEPT !.result.errors = Append(@, "Failed to create task"),
            !.i = @ + 1]

\* lines 134-135: createTodoistTask returned, then the next task
CreateDone(l) == [l EXCEPT !.result.created = @ + 1, !.i = @ + 1]

\* lines 341-355
updateSyncStateTask(tasks, todoistId, obsidianTask, completed) ==
  Put(tasks, todoistId,
      SyncedTask(todoistId, obsidianTask.filePath, obsidianTask.lineNumber,
                 generateContentHash(obsidianTask), now, completed, completed))

\* lines 225-231 and 962-978: createTask resolves with a new task
CreateOk(p) ==
  /\ pc[p] = "create"
  /\ initialized
  /\ nextId <= Len(IdStr)
  /\ LET t == CurNew(loc[p])
         id == IdStr[nextId]
     IN /\ remote' = Put(remote, id,
                         RemoteTask(t.content, FALSE, t.priority, t.dueDate))
        /\ calls' = Append(calls, Call("create", id, t, TRUE))
        /\ loc' = [loc EXCEPT ![p].newId = id]
  /\ nextId' = nextId + 1
  /\ pc' = [pc EXCEPT ![p] = "attachRead"]
  /\ UNCHANGED <<vault, writes, initialized, conflictResolution, isSyncing,
                 syncState, pendingConflicts, now, passesLeft, lastResult,
                 failures>>

\* lines 386-402 under line 234: vault.read resolves, the line is transformed
AttachRead(p) ==
  /\ pc[p] = "attachRead"
  /\ LET t == CurNew(loc[p])
         lines == vault[t.filePath]
     IN IF t.lineNumber > Len(lines)
        THEN /\ loc' = [loc EXCEPT ![p] = CreateErr(loc[p])]
             /\ pc' = [pc EXCEPT ![p] = LoopPc(loc'[p])]
        ELSE /\ loc' = [loc EXCEPT ![p].buf =
                          [lines EXCEPT ![t.lineNumber] =
                             addTodoistIdToLine(@, loc[p].newId)]]
             /\ pc' = [pc EXCEPT ![p] = "attachWrite"]
  /\ UNCHANGED <<vault, writes, remote, nextId, initialized,
                 conflictResolution, isSyncing, syncState, pendingConflicts,
                 now, passesLeft, lastResult, calls, failures>>

\* variant of AttachWrite: line 248 does not look at task.isCompleted
AttachWriteAlwaysCloses(p) ==
  /\ pc[p] = "attachWrite"
  /\ LET l == loc[p]
         t == CurNew(l)
     IN /\ vault' = [vault EXCEPT ![t.filePath] = l.buf]
        /\ writes' = Append(writes, Write(t, "attach", l.newId))
        /\ syncState' =
             [syncState EXCEPT !.tasks =
                Put(@, l.newId,
                    SyncedTask(l.newId, t.filePath, t.lineNumber,
                               generateContentHash(t), now, t.isCompleted,
                               FALSE))]
  /\ pc' = [pc EXCEPT ![p] = "createClose"]
  /\ UNCHANGED <<remote, nextId, initialized, conflictResolution, isSyncing,
                 pendingConflicts, now, passesLeft, lastResult, calls,
                 failures, loc>>

\* lines 403 and 236-250: vault.modify resolves, the record is stored
AttachWrite(p) ==
  /\ pc[p] = "attachWrite"
  /\ LET l == loc[p]
         t == CurNew(l)
     IN /\ vault' = [vault EXCEPT ![t.filePath] = l.buf]
        /\ writes' = Append(writes, Write(t, "attach", l.newId))
        /\ syncState' =
             [syncState EXCEPT !.tasks =
                Put(@, l.newId,
                    SyncedTask(l.newId, t.filePath, t.lineNumber,
                               generateContentHash(t), now, t.isCompleted,
                               FALSE))]
        /\ IF t.isCompleted
           THEN /\ pc' = [pc EXCEPT ![p] = "createClose"]
                /\ loc' = loc
           ELSE /\ loc' = [loc EXCEPT ![p] = CreateDone(l)]
                /\ pc' = [pc EXCEPT ![p] = LoopPc(loc'[p])]
  /\ UNCHANGED <<remote, nextId, initialized, conflictResolution, isSyncing,
                 pendingConflicts, now, passesLeft, lastResult, calls,
                 failures>>

\* lines 248-250 and 1012-1020: completeTask of the new task resolves
CreateClose(p) ==
  /\ pc[p] = "createClose"
  /\ initialized
  /\ loc[p].newId \in DOMAIN remote
  /\ remote' = [remote EXCEPT ![loc[p].newId].isCompleted = TRUE]
  /\ calls' = Append(calls, Call("close", loc[p].newId, CurNew(loc[p]), TRUE))
  /\ loc' = [loc EXCEPT ![p] = CreateDone(loc[p])]
  /\ pc' = [pc EXCEPT ![p] = LoopPc(loc'[p])]
  /\ UNCHANGED <<vault, writes, nextId, initialized, conflictResolution,
                 isSyncing, syncState, pendingConflicts, now, passesLeft,
                 lastResult, failures>>

\* lines 136-139: createTask, vault.read, vault.modify or completeTask rejects
CreatePhaseFail(p) ==
  /\ pc[p] \in {"create", "attachRead", "attachWrite", "createClose"}
  /\ CanFail \/ (pc[p] \in {"create", "createClose"} /\ ~initialized)
  /\ failures' = IF pc[p] \in {"create", "createClose"} /\ ~initialized
                 THEN failures ELSE failures + 1
  /\ calls' = CASE pc[p] = "create" ->
                     Append(calls, Call("create", NoId, CurNew(loc[p]), FALSE))
                [] pc[p] = "createClose" ->
                     Append(calls, Call("close", loc[p].newId,
                                        CurNew(loc[p]), FALSE))
                [] OTHER -> calls
  /\ loc' = [loc EXCEPT ![p] = CreateErr(loc[p])]
  /\ pc' = [pc EXCEPT ![p] = LoopPc(loc'[p])]
  /\ UNCHANGED <<vault, writes, remote, nextId, initialized,
                 conflictResolution, isSyncing, syncState, pendingConflicts,
                 now, passesLeft, lastResult>>

\* ------------------------------------------------------------ linked phase
CurId(l) == l.syncedIds[l.j]
CurTask(l) == l.syncedMap[CurId(l)]

\* lines 153-156 and 166-169: the catch of the linked loop, then the next id
LinkedErr(l) ==
  [l EXCEPT !.result.errors =
               Append(@, IF l.why = "deleted"
                         THEN "Failed to mark task completed"
                         ELSE "Failed to sync task"),
            !.j = @ + 1]

\* variant of Counted: line 163 tests for 'conflict' as well
CountedConflictAsUpdate(l, outcome) ==
  CASE outcome = "updated" -> [l EXCEPT !.result.updated = @ + 1, !.j = @ + 1]
    [] outcome = "conflict" ->
         [l EXCEPT !.result.updated = @ + 1, !.result.conflicts = @ + 1,
                   !.j = @ + 1]
    [] outcome = "completed" ->
         [l EXCEPT !.result.completed = @ + 1, !.j = @ + 1]
    [] OTHER -> [l EXCEPT !.j = @ + 1]

\* lines 163-165: the counter that belongs to the value of syncExistingTask
Counted(l, outcome) ==
  CASE outcome = "updated" -> [l EXCEPT !.result.updated = @ + 1, !.j = @ + 1]
    [] outcome = "conflict" ->
         [l EXCEPT !.result.conflicts = @ + 1, !.j = @ + 1]
    [] outcome = "completed" ->
         [l EXCEPT !.result.completed = @ + 1, !.j = @ + 1]
    [] OTHER -> [l EXCEPT !.j = @ + 1]

\* variant of hasChanges: a missing due date is null on one side and
\* undefined on the other
hasChangesNullDue(obsidianTask, todoistTask) ==
  \/ obsidianTask.content # todoistTask.content
  \/ obsidianTask.priority # todoistTask.priority
  \/ obsidianTask.dueDate # todoistTask.due
  \/ obsidianTask.dueDate = NoDate

\* lines 295-299
hasChanges(obsidianTask, todoistTask) ==
  \/ obsidianTask.content # todoistTask.content
  \/ obsidianTask.priority # todoistTask.priority
  \/ obsidianTask.dueDate # todoistTask.due

\* lines 143-146 and 256-335: the synchronous part of the loop body for the
\* next linked id, up to its first await or, when it has none, to its end
LinkedDispatch(p) ==
  /\ pc[p] = "linked"
  /\ LET l == [loc[p] EXCEPT !.reconciled = Append(@, CurId(loc[p])),
                             !.why = ""]
         id == CurId(l)
         t == CurTask(l)
         goto(to, why) ==
           /\ loc' = [loc EXCEPT ![p] = [l EXCEPT !.why = why]]
           /\ pc' = [pc EXCEPT ![p] = to]
           /\ UNCHANGED <<syncState, pendingConflicts>>
     IN IF id \notin DOMAIN l.todoistTaskMap
        THEN goto("markRead", "deleted")
        ELSE
          LET tt == l.todoistTaskMap[id]
          IN CASE t.isCompleted /\ ~tt.isCompleted -> goto("closeRemote", "")
               [] ~t.isCompleted /\ tt.isCompleted ->
                    (CASE conflictResolution = "todoist-wins" ->
                            goto("markRead", "todoist-wins")
                       [] conflictResolution = "obsidian-wins" ->
                            goto("reopen", "")
                       [] OTHER -> goto("markRead", "ask"))
               [] OTHER ->
                    (CASE ~hasChanges(t, tt) ->
                            /\ syncState' =
                                 [syncState EXCEPT !.tasks =
                                    updateSyncStateTask(@, id, t,
                                                        t.isCompleted)]
                            /\ loc' = [loc EXCEPT ![p] =
                                         Counted(l, "unchanged")]
                            /\ pc' = [pc EXCEPT ![p] = LoopPc(loc'[p])]
                            /\ UNCHANGED pendingConflicts
                       [] hasChanges(t, tt) /\
                          conflictResolution = "obsidian-wins" ->
                            goto("updateRemote", "")
                       [] hasChanges(t, tt) /\
                          conflictResolution = "todoist-wins" ->
                            goto("rewriteRead", "")
                       [] OTHER ->
                            /\ pendingConflicts' =
                                 Append(pendingConflicts,
                                   [todoistId |-> id,
                                    filePath |-> t.filePath,
                                    lineNumber |-> t.lineNumber,
                                    obsidianContent |-> t.content,
                                    todoistContent |-> tt.content,
                                    obsidianCompleted |-> t.isCompleted,
                                    todoistCompleted |-> tt.isCompleted])
                            /\ loc' = [loc EXCEPT ![p] =
                                         Counted(l, "conflict")]
                            /\ pc' = [pc EXCEPT ![p] = LoopPc(loc'[p])]
                            /\ UNCHANGED syncState)
  /\ UNCHANGED <<vault, writes, remote, nextId, initialized,
                 conflictResolution, isSyncing, now, passesLeft, lastResult,
                 calls, failures>>

\* lines 379-402: vault.read resolves, the checkbox of the line is set
MarkRead(p) ==
  /\ pc[p] = "markRead"
  /\ LET t == CurTask(loc[p])
         lines == vault[t.filePath]
     IN IF t.lineNumber > Len(lines)
        THEN /\ loc' = [loc EXCEPT ![p] = LinkedErr(loc[p])]
             /\ pc' = [pc EXCEPT ![p] = LoopPc(loc'[p])]
        ELSE /\ loc' = [loc EXCEPT ![p].buf =
                          [lines EXCEPT ![t.lineNumber] =
                             updateTaskCompletion(@, TRUE)]]
             /\ pc' = [pc EXCEPT ![p] = "markWrite"]
  /\ UNCHANGED <<vault, writes, remote, nextId, initialized,
                 conflictResolution, isSyncing, syncState, pendingConflicts,
                 now, passesLeft, lastResult, calls, failures>>

\* variant of MarkWrite: the ask branch returns 'completed' like the
\* todoist-wins branch it copies
MarkWriteAskCompleted(p) ==
  /\ pc[p] = "markWrite"
  /\ LET l == loc[p]
         id == CurId(l)
         t == CurTask(l)
     IN /\ vault' = [vault EXCEPT ![t.filePath] = l.buf]
        /\ writes' = Append(writes, Write(t, l.why, id))
        /\ syncState' =
             [syncState EXCEPT !.tasks =
                IF l.why = "deleted" THEN Del(@, id)
                ELSE updateSyncStateTask(@, id, t, TRUE)]
        /\ loc' = [loc EXCEPT ![p] = Counted(l, "completed")]
        /\ pc' = [pc EXCEPT ![p] = LoopPc(loc'[p])]
  /\ UNCHANGED <<remote, nextId, initialized, conflictResolution, isSyncing,
                 pendingConflicts, now, passesLeft, lastResult, calls,
                 failures>>

\* variant of MarkWrite: the record of a deleted task is updated, not removed
MarkWriteKeepsRecord(p) ==
  /\ pc[p] = "markWrite"
  /\ LET l == loc[p]
         id == CurId(l)
         t == CurTask(l)
     IN /\ vault' = [vault EXCEPT ![t.filePath] = l.buf]
        /\ writes' = Append(writes, Write(t, l.why, id))
        /\ syncState' =
             [syncState EXCEPT !.tasks = updateSyncStateTask(@, id, t, TRUE)]
        /\ loc' = [loc EXCEPT ![p] =
                     Counted(l, IF l.why = "ask" THEN "conflict"
                                ELSE "completed")]
        /\ pc' = [pc EXCEPT ![p] = LoopPc(loc'[p])]
  /\ UNCHANGED <<remote, nextId, initialized, conflictResolution, isSyncing,
                 pendingConflicts, now, passesLeft, lastResult, calls,
                 failures>>

\* line 403, then lines 151-152, 275-276 or 284-285
MarkWrite(p) ==
  /\ pc[p] = "markWrite"
  /\ LET l == loc[p]
         id == CurId(l)
         t == CurTask(l)
     IN /\ vault' = [vault EXCEPT ![t.filePath] = l.buf]
        /\ writes' = Append(writes, Write(t, l.why, id))
        /\ syncState' =
             [syncState EXCEPT !.tasks =
                IF l.why = "deleted" THEN Del(@, id)
                ELSE updateSyncStateTask(@, id, t, TRUE)]
        /\ loc' = [loc EXCEPT ![p] =
                     Counted(l, IF l.why = "ask" THEN "conflict"
                                ELSE "completed")]
        /\ pc' = [pc EXCEPT ![p] = LoopPc(loc'[p])]
  /\ UNCHANGED <<remote, nextId, initialized, conflictResolution, isSyncing,
                 pendingConflicts, now, passesLeft, lastResult, calls,
                 failures>>

\* variant of CloseRemote: the close is reported as an update
CloseRemoteCountsUpdated(p) ==
  /\ pc[p] = "closeRemote"
  /\ initialized
  /\ CurId(loc[p]) \in DOMAIN remote
  /\ LET l == loc[p]
         id == CurId(l)
     IN /\ remote' = [remote EXCEPT ![id].isCompleted = TRUE]
        /\ calls' = Append(calls, Call("close", id, CurTask(l), TRUE))
        /\ syncState' = [syncState EXCEPT !.tasks =
                           updateSyncStateTask(@, id, CurTask(l), TRUE)]
        /\ loc' = [loc EXCEPT ![p] = Counted(l, "updated")]
        /\ pc' = [pc EXCEPT ![p] = LoopPc(loc'[p])]
  /\ UNCHANGED <<vault, writes, nextId, initialized, conflictResolution,
                 isSyncing, pendingConflicts, now, passesLeft, lastResult,
                 failures>>

\* lines 268-270 and 1012-1020: completeTask resolves
CloseRemote(p) ==
  /\ pc[p] = "closeRemote"
  /\ initialized
  /\ CurId(loc[p]) \in DOMAIN remote
  /\ LET l == loc[p]
         id == CurId(l)
     IN /\ remote' = [remote EXCEPT ![id].isCompleted = TRUE]
        /\ calls' = Append(calls, Call("close", id, CurTask(l), TRUE))
        /\ syncState' = [syncState EXCEPT !.tasks =
                           updateSyncStateTask(@, id, CurTask(l), TRUE)]
        /\ loc' = [loc EXCEPT ![p] = Counted(l, "completed")]
        /\ pc' = [pc EXCEPT ![p] = LoopPc(loc'[p])]
  /\ UNCHANGED <<vault, writes, nextId, initialized, conflictResolution,
                 isSyncing, pendingConflicts, now, passesLeft, lastResult,
                 failures>>

\* variant of Reopen: the record is written as on the other two branches
ReopenKeepsFlags(p) ==
  /\ pc[p] = "reopen"
  /\ initialized
  /\ CurId(loc[p]) \in DOMAIN remote
  /\ LET l == loc[p]
         id == CurId(l)
     IN /\ remote' = [remote EXCEPT ![id].isCompleted = FALSE]
        /\ calls' = Append(calls, Call("reopen", id, CurTask(l), TRUE))
        /\ syncState' = [syncState EXCEPT !.tasks =
                           updateSyncStateTask(@, id, CurTask(l), TRUE)]
        /\ loc' = [loc EXCEPT ![p] = Counted(l, "updated")]
        /\ pc' = [pc EXCEPT ![p] = LoopPc(loc'[p])]
  /\ UNCHANGED <<vault, writes, nextId, initialized, conflictResolution,
                 isSyncing, pendingConflicts, now, passesLeft, lastResult,
                 failures>>

\* lines 278-280 and 1030-1038: reopenTask resolves
Reopen(p) ==
  /\ pc[p] = "reopen"
  /\ initialized
  /\ CurId(loc[p]) \in DOMAIN remote
  /\ LET l == loc[p]
         id == CurId(l)
     IN /\ remote' = [remote EXCEPT ![id].isCompleted = FALSE]
        /\ calls' = Append(calls, Call("reopen", id, CurTask(l), TRUE))
        /\ syncState' = [syncState EXCEPT !.tasks =
                           updateSyncStateTask(@, id, CurTask(l), FALSE)]
        /\ loc' = [loc EXCEPT ![p] = Counted(l, "updated")]
        /\ pc' = [pc EXCEPT ![p] = LoopPc(loc'[p])]
  /\ UNCHANGED <<vault, writes, nextId, initialized, conflictResolution,
                 isSyncing, pendingConflicts, now, passesLeft, lastResult,
                 failures>>

\* variant of updateTask: the updates object is built without the content
updateTaskWithoutContent(todoistTask, obsidianTask) ==
  [todoistTask EXCEPT
     !.priority = obsidianTask.priority,
     !.due = IF obsidianTask.dueDate = NoDate THEN @
             ELSE obsidianTask.dueDate]

\* lines 988-1002: a dueString that is undefined leaves the due date alone
updateTask(todoistTask, obsidianTask) ==
  [todoistTask EXCEPT
     !.content = obsidianTask.content,
     !.priority = obsidianTask.priority,
     !.due = IF obsidianTask.dueDate = NoDate THEN @
             ELSE obsidianTask.dueDate]

\* lines 310-317: updateTask resolves
UpdateRemote(p) ==
  /\ pc[p] = "updateRemote"
  /\ initialized
  /\ CurId(loc[p]) \in DOMAIN remote
  /\ LET l == loc[p]
         id == CurId(l)
         t == CurTask(l)
     IN /\ remote' = [remote EXCEPT ![id] = updateTask(@, t)]
        /\ calls' = Append(calls, Call("update", id, t, TRUE))
        /\ syncState' = [syncState EXCEPT !.tasks =
                           updateSyncStateTask(@, id, t, t.isCompleted)]
        /\ loc' = [loc EXCEPT ![p] = Counted(l, "updated")]
        /\ pc' = [pc EXCEPT ![p] = LoopPc(loc'[p])]
  /\ UNCHANGED <<vault, writes, nextId, initialized, conflictResolution,
                 isSyncing, pendingConflicts, now, passesLeft, lastResult,
                 failures>>

\* variant of updateObsidianTaskFromTodoist: the due date is not copied
updateObsidianTaskKeepsDue(obsidianTask, todoistTask) ==
  buildTaskLine([obsidianTask EXCEPT
                   !.content = todoistTask.content,
                   !.priority = todoistTask.priority,
                   !.isCompleted = todoistTask.isCompleted])

\* lines 364-372: the line built from the remote task
updateObsidianTaskFromTodoist(obsidianTask, todoistTask) ==
  buildTaskLine([obsidianTask EXCEPT
                   !.content = todoistTask.content,
                   !.priority = todoistTask.priority,
                   !.dueDate = todoistTask.due,
                   !.isCompleted = todoistTask.isCompleted])

\* lines 409-426 under line 320: vault.read resolves, the line is replaced
RewriteRead(p) ==
  /\ pc[p] = "rewriteRead"
  /\ LET l == loc[p]
         t == CurTask(l)
         lines == vault[t.filePath]
     IN IF t.lineNumber > Len(lines)
        THEN /\ loc' = [loc EXCEPT ![p] = LinkedErr(l)]
             /\ pc' = [pc EXCEPT ![p] = LoopPc(loc'[p])]
        ELSE /\ loc' = [loc EXCEPT ![p].buf =
                          [lines EXCEPT ![t.lineNumber] =
                             updateObsidianTaskFromTodoist(
                               t, l.todoistTaskMap[CurId(l)])]]
             /\ pc' = [pc EXCEPT ![p] = "rewriteWrite"]
  /\ UNCHANGED <<vault, writes, remote, nextId, initialized,
                 conflictResolution, isSyncing, syncState, pendingConflicts,
                 now, passesLeft, lastResult, calls, failures>>

\* line 427, then lines 321-322
RewriteWrite(p) ==
  /\ pc[p] = "rewriteWrite"
  /\ LET l == loc[p]
         t == CurTask(l)
     IN /\ vault' = [vault EXCEPT ![t.filePath] = l.buf]
        /\ writes' = Append(writes, Write(t, "rewrite", CurId(l)))
        /\ syncState' = [syncState EXCEPT !.tasks =
                           updateSyncStateTask(@, CurId(l), t, t.isCompleted)]
        /\ loc' = [loc EXCEPT ![p] = Counted(l, "updated")]
        /\ pc' = [pc EXCEPT ![p] = LoopPc(loc'[p])]
  /\ UNCHANGED <<remote, nextId, initialized, conflictResolution, isSyncing,
                 pendingConflicts, now, passesLeft, lastResult, calls,
                 failures>>

GatewayPcs == {"closeRemote", "reopen", "updateRemote"}

\* lines 153-156 and 166-169: a read, a write or a remote call of the loop
\* body rejects
LinkedPhaseFail(p) ==
  /\ pc[p] \in GatewayPcs \cup
               {"markRead", "markWrite", "rewriteRead", "rewriteWrite"}
  /\ CanFail \/ (pc[p] \in GatewayPcs /\ ~initialized)
  /\ failures' = IF pc[p] \in GatewayPcs /\ ~initialized
                 THEN failures ELSE failures + 1
  /\ calls' = IF pc[p] \in GatewayPcs
              THEN Append(calls,
                     Call(CASE pc[p] = "closeRemote" -> "close"
                            [] pc[p] = "reopen" -> "reopen"
                            [] OTHER -> "update",
                          CurId(loc[p]), CurTask(loc[p]), FALSE))
              ELSE calls
  /\ loc' = [loc EXCEPT ![p] = LinkedErr(loc[p])]
  /\ pc' = [pc EXCEPT ![p] = LoopPc(loc'[p])]
  /\ UNCHANGED <<vault, writes, remote, nextId, initialized,
                 conflictResolution, isSyncing, syncState, pendingConflicts,
                 now, passesLeft, lastResult>>

\* variant of OrphanCleanup: a fetched task that no line links to is adopted
\* with a record of its own
OrphanCleanupAdopts(tasks, todoistTaskMap, syncedObsidianTasks) ==
  LET unlinked ==
        {id \in DOMAIN todoistTaskMap : id \notin DOMAIN syncedObsidianTasks}
  IN [x \in DOMAIN tasks \cup unlinked |->
        IF x \in unlinked
        THEN SyncedTask(x, Files[1], 1, EmptyHash, now, FALSE,
                        todoistTaskMap[x].isCompleted)
        ELSE tasks[x]]

\* lines 174-181: records of remote tasks that no scanned line links to
OrphanCleanup(tasks, todoistTaskMap, syncedObsidianTasks) ==
  [x \in DOMAIN tasks \
         {id \in DOMAIN todoistTaskMap : id \notin DOMAIN syncedObsidianTasks}
     |-> tasks[x]]

\* variant of Finish: lastFullSync is stamped only by a pass without errors
FinishStampsWhenClean(p) ==
  /\ pc[p] = "finish"
  /\ syncState' =
       [tasks |-> OrphanCleanup(syncState.tasks, loc[p].todoistTaskMap,
                                loc[p].syncedMap),
        lastFullSync |-> IF loc[p].result.errors = <<>> THEN now
                         ELSE syncState.lastFullSync]
  /\ isSyncing' = FALSE
  /\ Return(p, "done", loc[p].result)
  /\ UNCHANGED <<vault, writes, remote, nextId, initialized,
                 conflictResolution, pendingConflicts, now, passesLeft, loc,
                 calls, failures>>

\* lines 172-193: the end of a pass
Finish(p) ==
  /\ pc[p] = "finish"
  /\ syncState' =
       [tasks |-> OrphanCleanup(syncState.tasks, loc[p].todoistTaskMap,
                                loc[p].syncedMap),
        lastFullSync |-> now]
  /\ isSyncing' = FALSE
  /\ Return(p, "done", loc[p].result)
  /\ UNCHANGED <<vault, writes, remote, nextId, initialized,
                 conflictResolution, pendingConflicts, now, passesLeft, loc,
                 calls, failures>>

\* what a rejected promise carries
Errors == {"auth", "network"}

\* ------------------------------------------------------ createTaskFromLine
\* lines 476-479: /^[-*+]\s+/ and /^\d+\.\s+/ take a marker off the trimmed
\* line only when white space, and so more text, follows it
StripMarker(s) ==
  LET a == IF Len(s) >= 2 /\ Kind(s[1]) = "bullet" THEN Tail(s) ELSE s
  IN IF Len(a) >= 2 /\ Kind(a[1]) = "number" THEN Tail(a) ELSE a

\* the leading white space of a line
Prefix(line) ==
  IF Len(line) > 0 /\ Kind(line[1]) = "indent" THEN <<line[1]>> ELSE <<>>

\* lines 488-495: the text that is sent to the remote service
commandCleanContent(content) ==
  SelectSeq(content, LAMBDA t : Kind(t) \notin {"tag", "due", "prio"})

\* lines 442-485: the line is taken as a task or converted to one; refuse is
\* the message of the early return, if any
CommandParsed(line) ==
  IF IsTaskLine(line)
  THEN LET c == TaskContent(line)
       IN [isTask |-> TRUE,
           prefix |-> Prefix(line),
           content |-> IF Has(c, IsSyncTag) THEN c ELSE Append(c, SyncTag),
           refuse |-> IF Has(c, IsId)
                      THEN "Task is already synced with Todoist." ELSE ""]
  ELSE LET cleaned == StripMarker(Trim(line))
       IN [isTask |-> FALSE,
           prefix |-> Prefix(line),
           content |-> Append(cleaned, SyncTag),
           refuse |-> IF Trim(line) = <<>>
                      THEN "Cannot create task from empty line."
                      ELSE IF cleaned = <<>>
                      THEN "Cannot create task from empty bullet."
                      ELSE ""]

\* `return { success, message }`: the locals are dropped, the value is kept
CommandReturn(success, message) ==
  /\ loc' = [loc EXCEPT ![CommandFrame] =
               [NoCommand EXCEPT
                  !.served = loc[CommandFrame].served,
                  !.result = [success |-> success, message |-> message]]]
  /\ pc' = [pc EXCEPT ![CommandFrame] = "idle"]

\* lines 433-496: the command is run on line k of file f, whose text the
\* editor shows; it returns early or suspends in createTask
CommandCall(f, k) ==
  /\ pc[CommandFrame] = "idle"
  /\ k \in 1..Len(vault[f])
  /\ LET line == vault[f][k]
         c == CommandParsed(line)
     IN IF ~initialized
        THEN CommandReturn(FALSE, <<"Todoist API not configured.">>)
        ELSE IF c.refuse # ""
        THEN CommandReturn(FALSE, <<c.refuse>>)
        ELSE /\ loc[CommandFrame].served < MaxCommands
             /\ loc' = [loc EXCEPT ![CommandFrame] =
                          [NoCommand EXCEPT
                             !.filePath = f, !.lineNumber = k,
                             !.lineContent = line, !.isTask = c.isTask,
                             !.prefix = c.prefix, !.content = c.content,
                             !.cleanContent = commandCleanContent(c.content),
                             !.served = loc[CommandFrame].served + 1]]
             /\ pc' = [pc EXCEPT ![CommandFrame] = "commandCreate"]
  /\ UNCHANGED <<vault, writes, remote, nextId, initialized,
                 conflictResolution, isSyncing, syncState, pendingConflicts,
                 now, passesLeft, lastResult, calls, failures>>

\* lines 499-501 and 962-978: createTask resolves with a new task
CommandCreateOk ==
  /\ pc[CommandFrame] = "commandCreate"
  /\ initialized
  /\ nextId <= Len(IdStr)
  /\ remote' = Put(remote, IdStr[nextId],
                   RemoteTask(loc[CommandFrame].cleanContent, FALSE, NONE,
                              NoDate))
  /\ nextId' = nextId + 1
  /\ loc' = [loc EXCEPT ![CommandFrame].newId = IdStr[nextId],
                        ![CommandFrame].requests = @ + 1]
  /\ pc' = [pc EXCEPT ![CommandFrame] = "commandRead"]
  /\ UNCHANGED <<vault, writes, initialized, conflictResolution, isSyncing,
                 syncState, pendingConflicts, now, passesLeft, lastResult,
                 calls, failures>>

\* lines 512-523: the line that replaces the one the command was run on
CommandNewLine(l) ==
  IF l.isTask
  THEN LET a == addTodoistIdToLine(l.lineContent, l.newId)
           i == Min({k \in 1..Len(a) : IsId(a[k])})
       IN IF Has(a, IsSyncTag) THEN a
          ELSE SubSeq(a, 1, i - 1) \o <<SyncTag>> \o SubSeq(a, i, Len(a))
  ELSE l.prefix \o <<Bul, BoxOpen>> \o l.content \o <<IdTok(l.newId)>>

\* lines 509-525: vault.read resolves, the line is replaced in the copy
CommandRead ==
  /\ pc[CommandFrame] = "commandRead"
  /\ LET l == loc[CommandFrame]
     IN loc' = [loc EXCEPT ![CommandFrame].buf =
                  [vault[l.filePath] EXCEPT ![l.lineNumber] =
                     CommandNewLine(l)]]
  /\ pc' = [pc EXCEPT ![CommandFrame] = "commandWrite"]
  /\ UNCHANGED <<vault, writes, remote, nextId, initialized,
                 conflictResolution, isSyncing, syncState, pendingConflicts,
                 now, passesLeft, lastResult, calls, failures>>

\* variant of CommandWrite: the command stamps the state like a full pass
CommandWriteStamps ==
  /\ pc[CommandFrame] = "commandWrite"
  /\ LET l == loc[CommandFrame]
     IN /\ vault' = [vault EXCEPT ![l.filePath] = l.buf]
        /\ syncState' =
             [tasks |->
                Put(syncState.tasks, l.newId,
                    SyncedTask(l.newId, l.filePath, l.lineNumber, EmptyHash,
                               now, FALSE, FALSE)),
              lastFullSync |-> now + 1]
  /\ CommandReturn(TRUE, <<"Created Todoist task">>)
  /\ UNCHANGED <<writes, remote, nextId, initialized, conflictResolution,
                 isSyncing, pendingConflicts, now, passesLeft, lastResult,
                 calls, failures>>

\* lines 526-539: vault.modify resolves, the record is inserted
CommandWrite ==
  /\ pc[CommandFrame] = "commandWrite"
  /\ LET l == loc[CommandFrame]
     IN /\ vault' = [vault EXCEPT ![l.filePath] = l.buf]
        /\ syncState' =
             [syncState EXCEPT !.tasks =
                Put(@, l.newId,
                    SyncedTask(l.newId, l.filePath, l.lineNumber, EmptyHash,
                               now, FALSE, FALSE))]
  /\ CommandReturn(TRUE, <<"Created Todoist task">>)
  /\ UNCHANGED <<writes, remote, nextId, initialized, conflictResolution,
                 isSyncing, pendingConflicts, now, passesLeft, lastResult,
                 calls, failures>>

\* variant of CommandFail: the message does not name the error
CommandFailNoCause ==
  /\ pc[CommandFrame] \in {"commandCreate", "commandRead", "commandWrite"}
  /\ CanFail
  /\ failures' = failures + 1
  /\ CommandReturn(FALSE, <<"Failed to create task">>)
  /\ UNCHANGED <<vault, writes, remote, nextId, initialized,
                 conflictResolution, isSyncing, syncState, pendingConflicts,
                 now, passesLeft, lastResult, calls>>

\* lines 541-544: createTask, vault.read or vault.modify rejects
CommandFail ==
  /\ pc[CommandFrame] \in {"commandCreate", "commandRead", "commandWrite"}
  /\ CanFail
  /\ failures' = failures + 1
  /\ \E err \in Errors : CommandReturn(FALSE, <<"Failed to create task", err>>)
  /\ UNCHANGED <<vault, writes, remote, nextId, initialized,
                 conflictResolution, isSyncing, syncState, pendingConflicts,
                 now, passesLeft, lastResult, calls>>

\* ---------------------------------------------------------- TodoistService
\* the tasks of the remote service in the order it lists them
ListedIds == SelectSeq(IdStr, LAMBDA id : id \in DOMAIN remote)

\* the page the service sends for cursor c; no cursor means the first page
PageAt(c) == IF c = 0 THEN 1 ELSE c

PageOf(c) ==
  SubSeq(ListedIds, (PageAt(c) - 1) * PageLimit + 1,
         Min({PageAt(c) * PageLimit, Len(ListedIds)}))

\* variant of NextCursor: the cursor of the response is not read
NextCursorDropped(c) == 0

\* nextCursor of the response for cursor c, 0 for none
NextCursor(c) ==
  IF PageAt(c) * PageLimit < Len(ListedIds) THEN PageAt(c) + 1 ELSE 0

\* the number of pages the service serves its tasks in
NumPages ==
  IF Len(ListedIds) = 0 THEN 1
  ELSE (Len(ListedIds) + PageLimit - 1) \div PageLimit

ListReturn(kind, tasks, requests) ==
  /\ loc' = [loc EXCEPT ![ListFrame] =
               [NoList EXCEPT !.result =
                  [kind |-> kind, tasks |-> tasks, requests |-> requests]]]
  /\ pc' = [pc EXCEPT ![ListFrame] = "idle"]

\* lines 897-910: getTasks is called; without an api object it throws, else
\* it suspends in the first request. The service answers with plain arrays
\* or with pages, depending on its version.
ListCall ==
  /\ pc[ListFrame] = "idle"
  /\ IF ~initialized
     THEN ListReturn("thrown", <<>>, 0)
     ELSE /\ \E fmt \in {"array", "paged"} :
               loc' = [loc EXCEPT ![ListFrame] = [NoList EXCEPT !.format = fmt]]
          /\ pc' = [pc EXCEPT ![ListFrame] = "listPage"]
  /\ UNCHANGED <<vault, writes, remote, nextId, initialized,
                 conflictResolution, isSyncing, syncState, pendingConflicts,
                 now, passesLeft, lastResult, calls, failures>>

\* lines 910-930: a request resolves; the loop goes on while there is a cursor
ListPage ==
  /\ pc[ListFrame] = "listPage"
  /\ LET l == loc[ListFrame]
         all == l.allTasks \o
                (IF l.format = "array" THEN ListedIds ELSE PageOf(l.cursor))
         cursor == IF l.format = "array" THEN 0 ELSE NextCursor(l.cursor)
     IN IF cursor # 0
        THEN /\ loc' = [loc EXCEPT ![ListFrame].allTasks = all,
                                   ![ListFrame].cursor = cursor,
                                   ![ListFrame].requests = @ + 1]
             /\ pc' = pc
        ELSE ListReturn("ok", all, l.requests + 1)
  /\ UNCHANGED <<vault, writes, remote, nextId, initialized,
                 conflictResolution, isSyncing, syncState, pendingConflicts,
                 now, passesLeft, lastResult, calls, failures>>

\* lines 933-936: a request rejects and getTasks rethrows
ListFail ==
  /\ pc[ListFrame] = "listPage"
  /\ CanFail
  /\ failures' = failures + 1
  /\ ListReturn("thrown", <<>>, loc[ListFrame].requests + 1)
  /\ UNCHANGED <<vault, writes, remote, nextId, initialized,
                 conflictResolution, isSyncing, syncState, pendingConflicts,
                 now, passesLeft, lastResult, calls>>

\* lines 858-860: verifyToken is called; without an api object it returns
\* false, else it suspends in api.getProjects
VerifyCall ==
  /\ pc[VerifyFrame] = "idle"
  /\ IF ~initialized
     THEN /\ loc' = [loc EXCEPT ![VerifyFrame] =
                       [result |-> "false", cause |-> "none"]]
          /\ pc' = pc
     ELSE /\ loc' = [loc EXCEPT ![VerifyFrame] = NoVerify]
          /\ pc' = [pc EXCEPT ![VerifyFrame] = "verify"]
  /\ UNCHANGED <<vault, writes, remote, nextId, initialized,
                 conflictResolution, isSyncing, syncState, pendingConflicts,
                 now, passesLeft, lastResult, calls, failures>>

\* lines 860-862: api.getProjects resolves
VerifyOk ==
  /\ pc[VerifyFrame] = "verify"
  /\ loc' = [loc EXCEPT ![VerifyFrame] = [result |-> "true", cause |-> "none"]]
  /\ pc' = [pc EXCEPT ![VerifyFrame] = "idle"]
  /\ UNCHANGED <<vault, writes, remote, nextId, initialized,
                 conflictResolution, isSyncing, syncState, pendingConflicts,
                 now, passesLeft, lastResult, calls, failures>>

\* lines 863-866: api.getProjects rejects; the catch returns false
VerifyFail ==
  /\ pc[VerifyFrame] = "verify"
  /\ CanFail
  /\ failures' = failures + 1
  /\ \E err \in Errors :
       loc' = [loc EXCEPT ![VerifyFrame] = [result |-> "false", cause |-> err]]
  /\ pc' = [pc EXCEPT ![VerifyFrame] = "idle"]
  /\ UNCHANGED <<vault, writes, remote, nextId, initialized,
                 conflictResolution, isSyncing, syncState, pendingConflicts,
                 now, passesLeft, lastResult, calls>>

\* ------------------------------------------------- task-parser on its own
\* label lists of zero to MaxLabels labels; the third repeats the first
LabelNames == <<"l1", "l2", "l1", "l2">>
LabelLists == {SubSeq(LabelNames, 1, n) : n \in 0..MaxLabels}

\* tasks with well-formed fields: text without metadata, lower-case labels
CodecTasks ==
  {[lineNumber |-> 1, filePath |-> Files[1], content |-> c, isCompleted |-> b,
    todoistId |-> i, dueDate |-> d, priority |-> p, labels |-> ls] :
     c \in {<<W("A")>>, <<W("A"), W("B")>>}, b \in BOOLEAN,
     i \in {NoId, "1"}, d \in {NoDate, "2025-01-01"},
     p \in {NONE, LOW, MEDIUM, HIGH}, ls \in LabelLists}

\* linked task lines: plain, with the glyph of a checkbox in the text, and
\* with labels
CodecLines ==
  {<<Bul, b, W("A"), w, SyncTag, IdTok("1")>> :
     b \in {BoxOpen, BoxDone}, w \in {W("B"), W("[ ]"), W("[x]")}}
  \cup {<<Bul, BoxOpen, W("A"), SyncTag>> \o
          [k \in 1..n |-> Tag(LabelNames[k])] \o <<IdTok("1")>> :
          n \in 0..MaxLabels}
  \cup {<<Bul, BoxDone, W("[ ]"), W("[ ]"), SyncTag, IdTok("1")>>}

CodecRemotes == RemoteOne \ {Absent}

\* buildTaskLine(task, syncTag)
CodecBuild ==
  /\ pc[CodecFrame] = "idle"
  /\ \E task \in CodecTasks :
       loc' = [loc EXCEPT ![CodecFrame] =
                 [NoCodec EXCEPT !.op = "buildTaskLine", !.task = task,
                                 !.out = buildTaskLine(task)]]
  /\ pc' = [pc EXCEPT ![CodecFrame] = "built"]
  /\ UNCHANGED <<vault, writes, remote, nextId, initialized,
                 conflictResolution, isSyncing, syncState, pendingConflicts,
                 now, passesLeft, lastResult, calls, failures>>

\* lines 265, 299-301 and 364-372: buildTaskLine on a scanned task whose
\* completion is that of the remote task and whose fields differ from it,
\* with the fields of the remote task copied in
CodecRewrite ==
  /\ pc[CodecFrame] = "idle"
  /\ \E line \in CodecLines, tt \in CodecRemotes :
       LET t == parseTaskLine(line, 1, Files[1])
       IN /\ t.isCompleted = tt.isCompleted
          /\ hasChanges(t, tt)
          /\ loc' = [loc EXCEPT ![CodecFrame] =
                       [NoCodec EXCEPT
                          !.op = "updateObsidianTaskFromTodoist", !.task = t,
                          !.line = line, !.todoistTask = tt,
                          !.out = updateObsidianTaskFromTodoist(t, tt)]]
  /\ pc' = [pc EXCEPT ![CodecFrame] = "built"]
  /\ UNCHANGED <<vault, writes, remote, nextId, initialized,
                 conflictResolution, isSyncing, syncState, pendingConflicts,
                 now, passesLeft, lastResult, calls, failures>>

\* parseTaskLine on the line that was built
CodecParse ==
  /\ pc[CodecFrame] = "built"
  /\ IsSyncedTaskLine(loc[CodecFrame].out)
  /\ loc' = [loc EXCEPT ![CodecFrame].parsed =
               parseTaskLine(loc[CodecFrame].out, 1, Files[1])]
  /\ pc' = [pc EXCEPT ![CodecFrame] = "idle"]
  /\ UNCHANGED <<vault, writes, remote, nextId, initialized,
                 conflictResolution, isSyncing, syncState, pendingConflicts,
                 now, passesLeft, lastResult, calls, failures>>

\* updateTaskCompletion(line, isCompleted)
CodecSetCompleted ==
  /\ pc[CodecFrame] = "idle"
  /\ \E line \in CodecLines, b \in BOOLEAN :
       loc' = [loc EXCEPT ![CodecFrame] =
                 [NoCodec EXCEPT !.op = "updateTaskCompletion",
                                 !.line = line, !.flag = b,
                                 !.out = updateTaskCompletion(line, b)]]
  /\ UNCHANGED <<vault, writes, remote, nextId, initialized,
                 conflictResolution, isSyncing, syncState, pendingConflicts,
                 now, passesLeft, pc, lastResult, calls, failures>>

\* ------------------------------------------------------------- environment
\* lines 720-726 with a token entered: saveData(this.settings) writes the
\* settings object, whose syncState is the one loadSettings found, and the
\* service gets an api object
saveSettings ==
  /\ initialized' = TRUE
  /\ loc' = [loc EXCEPT ![StoreFrame].stored = loc[StoreFrame].loaded]
  /\ UNCHANGED <<vault, writes, remote, nextId, conflictResolution,
                 isSyncing, syncState, pendingConflicts, now, passesLeft, pc,
                 lastResult, calls, failures>>

\* lines 744-748 under lines 666 and 765: the sync state of the engine is
\* written to the data file after a performSync call or a successful command
saveSyncState ==
  /\ lastResult.kind # "none" \/ loc[CommandFrame].result.success
  /\ loc' = [loc EXCEPT ![StoreFrame].stored = syncState,
                        ![StoreFrame].saved = syncState]
  /\ UNCHANGED <<vault, writes, remote, nextId, initialized,
                 conflictResolution, isSyncing, syncState, pendingConflicts,
                 now, passesLeft, pc, lastResult, calls, failures>>

Next ==
  \/ \E p \in Frames : Rejected(p)
  \/ \E p \in Frames : NotConfigured(p)
  \/ \E p \in Frames : StartSync(p)
  \/ \E p \in Frames : FetchOk(p)
  \/ \E p \in Frames : FetchFail(p)
  \/ \E p \in Frames : ScanRead(p)
  \/ \E p \in Frames : ScanSkip(p)
  \/ \E p \in Frames : SyncThrow(p)
  \/ \E p \in Frames : CreateOk(p)
  \/ \E p \in Frames : AttachRead(p)
  \/ \E p \in Frames : AttachWrite(p)
  \/ \E p \in Frames : CreateClose(p)
  \/ \E p \in Frames : CreatePhaseFail(p)
  \/ \E p \in Frames : LinkedDispatch(p)
  \/ \E p \in Frames : MarkRead(p)
  \/ \E p \in Frames : MarkWrite(p)
  \/ \E p \in Frames : CloseRemote(p)
  \/ \E p \in Frames : Reopen(p)
  \/ \E p \in Frames : UpdateRemote(p)
  \/ \E p \in Frames : RewriteRead(p)
  \/ \E p \in Frames : RewriteWrite(p)
  \/ \E p \in Frames : LinkedPhaseFail(p)
  \/ \E p \in Frames : Finish(p)
  \/ saveSettings

Spec == Init /\ [][Next]_vars

SpecRepeat == InitRepeat /\ [][Next]_vars

\* every await of a pass resolves or rejects
PassStep(p) ==
  \/ FetchOk(p) \/ FetchFail(p) \/ ScanRead(p) \/ ScanSkip(p) \/ SyncThrow(p)
  \/ CreateOk(p) \/ AttachRead(p) \/ AttachWrite(p) \/ CreateClose(p)
  \/ CreatePhaseFail(p) \/ LinkedDispatch(p) \/ MarkRead(p) \/ MarkWrite(p)
  \/ CloseRemote(p) \/ Reopen(p) \/ UpdateRemote(p) \/ RewriteRead(p)
  \/ RewriteWrite(p) \/ LinkedPhaseFail(p) \/ Finish(p)

FairSpec ==
  InitFair /\ [][Next]_vars /\ WF_vars(\E p \in Frames : PassStep(p))

\* the command of the editor next to the passes
LineEmpty == <<>>
LineBullet == <<Bul>>
LineListItem == <<Bul, W("A"), SyncTag, IdTok("1")>>
LineUntagged == <<Bul, BoxOpen, W("D"), Prio("high")>>

CommandVaults ==
  {MkVault(<<LineOneOpen>>, <<a, LineEmpty>>) :
     a \in {LineNewDone, LineUntagged, LineBullet, LineListItem}}

\* the plugin starts without a token and without records
InitCommand ==
  /\ InitWith(CommandVaults,
              {MkRemote(RemoteTask(<<W("A")>>, TRUE, NONE, NoDate), Absent)},
              MaxPasses)
  /\ ~initialized
  /\ conflictResolution # "ask-user"
  /\ syncState.tasks = EmptyMap

NextCommand ==
  \/ Next
  \/ \E f \in FileSet : \E k \in 1..Len(vault[f]) : CommandCall(f, k)
  \/ CommandCreateOk
  \/ CommandRead
  \/ CommandWrite
  \/ CommandFail

SpecCommand == InitCommand /\ [][NextCommand]_vars

\* the command next to a pass that creates a task in the same file, with no
\* failure of the vault or of the remote service
LineOnlyMarker == <<Bul, BoxOpen, SyncTag, Prio("high")>>

RaceVaults ==
  {MkVault(<<LineNewOpen, LineUntagged>>, <<c>>) :
     c \in {LineOnlyMarker, LineNote}}

InitRace ==
  /\ InitWith(RaceVaults, {MkRemote(Absent, Absent)}, MaxPasses)
  /\ initialized
  /\ conflictResolution = "todoist-wins"
  /\ syncState.tasks = EmptyMap

NextRace ==
  \/ \E p \in Frames : Rejected(p)
  \/ \E p \in Frames : StartSync(p)
  \/ \E p \in Frames : FetchOk(p)
  \/ \E p \in Frames : ScanRead(p)
  \/ \E p \in Frames : CreateOk(p)
  \/ \E p \in Frames : AttachRead(p)
  \/ \E p \in Frames : AttachWrite(p)
  \/ \E p \in Frames : Finish(p)
  \/ \E f \in FileSet : \E k \in 1..Len(vault[f]) : CommandCall(f, k)
  \/ CommandCreateOk
  \/ CommandRead
  \/ CommandWrite

SpecRace == InitRace /\ [][NextRace]_vars

\* the passes and the command with the data file
NextStore == NextCommand \/ saveSyncState

SpecStore == InitCommand /\ [][NextStore]_vars

\* the service on its own: the settings tab verifies the token and the task
\* list is fetched from services that hold zero to MaxRemoteTasks tasks
ServiceRemotes ==
  {[x \in {IdStr[k] : k \in 1..n} |->
      RemoteTask(<<W("A")>>, FALSE, NONE, NoDate)] : n \in 0..MaxRemoteTasks}

InitService ==
  InitWith({MkVault(<<LineNote>>, <<LineNote>>)}, ServiceRemotes, 0)

NextService ==
  \/ ListCall
  \/ ListPage
  \/ ListFail
  \/ VerifyCall
  \/ VerifyOk
  \/ VerifyFail
  \/ saveSettings

SpecService == InitService /\ [][NextService]_vars

\* the functions of task-parser.ts applied to bounded inputs
InitCodec ==
  /\ InitWith({MkVault(<<LineNote>>, <<LineNote>>)},
              {MkRemote(Absent, Absent)}, 0)
  /\ syncState.tasks = EmptyMap

NextCodec ==
  \/ CodecBuild
  \/ CodecRewrite
  \/ CodecParse
  \/ CodecSetCompleted

SpecCodec == InitCodec /\ [][NextCodec]_vars

\* ------------------------------------------------------------- properties
InFlight == {p \in Frames : pc[p] # "idle"}

\* a pass has returned normally and no later pass has started
PassEnd == lastResult.kind = "done" /\ ~isSyncing

\* the local variables of the pass that returned last
Last == loc[lastResult.by]

Count(s, P(_)) == Cardinality({k \in 1..Len(s) : P(s[k])})

NoCounters(res) ==
  res.created = 0 /\ res.updated = 0 /\ res.completed = 0 /\ res.conflicts = 0

HasIdComment(line, id) == \E k \in 1..Len(line) : line[k] = IdTok(id)

BoxIsDone(line) == IsTaskLine(line) /\ Val(TaskBody(line)[2]) \in {"x", "X"}

\* a step of a call that arrives while isSyncing is set: no pass in flight
\* moves and the settings are not touched
ArrivalStep ==
  /\ isSyncing
  /\ initialized' = initialized
  /\ \A q \in Frames : pc[q] # "idle" => pc'[q] = pc[q] /\ loc'[q] = loc[q]

\* C1: a performSync call made while a pass is in flight returns at once with
\* all counters zero and exactly one error, makes no gateway call, writes no
\* document, changes no field of the sync state and is not queued.
C1_RejectedCallIsInert ==
  [][ArrivalStep =>
       /\ NoCounters(lastResult'.res)
       /\ Len(lastResult'.res.errors) = 1
       /\ pc' = pc
       /\ UNCHANGED <<vault, remote, nextId, syncState, pendingConflicts,
                      calls, writes, now>>]_vars

C1_Witness ==
  isSyncing /\ lastResult.kind = "rejected" /\ \E p \in Frames :
    pc[p] = "attachWrite"

\* C2: at most one call is past the in-progress guard at any time and the
\* guard stays set for as long as that call is in flight, so every further
\* call, a third one included, is rejected.
C2_AtMostOnePass ==
  Cardinality(InFlight) <= 1 /\ (isSyncing <=> InFlight # {})

C2_Witness ==
  lastResult.kind = "rejected" /\ \E p \in Frames : pc[p] = "linked"

\* C3: every accepted pass returns, and whenever a pass returns (normally,
\* after a failed fetch, or through the outer catch) the guard is clear.
C3_PassReturnsWithGuardClear ==
  /\ [][\A p \in Frames :
          (pc[p] # "idle" /\ pc'[p] = "idle") => ~isSyncing']_vars
  /\ (isSyncing ~> ~isSyncing)

\* a pass was accepted after an earlier pass had been aborted at the fetch
C3_Witness == now >= 2 /\ isSyncing /\ lastResult.kind = "aborted"

\* C4: a pass whose remote fetch fails ends there with the failure message
\* and zero counters; it has made no gateway call, written no document and
\* left the sync state, lastFullSync included, as it was.
C4_FetchFailureAbortsPass ==
  [][\A p \in Frames :
       /\ (pc[p] = "idle" /\ pc'[p] = "fetch") =>
            UNCHANGED <<vault, remote, syncState, pendingConflicts>>
       /\ (pc[p] = "fetch" /\ pc'[p] = "idle") =>
            /\ NoCounters(lastResult'.res)
            /\ lastResult'.res.errors = <<"Failed to fetch Todoist tasks">>
            /\ calls' = <<>> /\ writes' = <<>>
            /\ UNCHANGED <<vault, remote, nextId, syncState,
                           pendingConflicts>>]_vars

C4_Witness == lastResult.kind = "aborted" /\ ~isSyncing

\* C5: a call made while the service has no credential returns one error and
\* zero counters, makes no remote call, changes neither documents nor sync
\* state and leaves the in-progress guard clear.
C5_UnconfiguredCallIsInert ==
  [][(~isSyncing /\ ~initialized /\ ~initialized') =>
       /\ NoCounters(lastResult'.res)
       /\ lastResult'.res.errors = <<"Todoist API not configured">>
       /\ ~isSyncing'
       /\ pc' = pc
       /\ UNCHANGED <<vault, remote, nextId, syncState, pendingConflicts,
                      calls, writes, now>>]_vars

C5_Witness == lastResult.kind = "unconfigured" /\ ~initialized

IsCreate(c) == c.op = "create"
CreateReturned(c) == c.op = "create" /\ c.ok

\* the store accepted the rewrite that attaches the id of create call c
Attached(c) ==
  \E k \in 1..Len(writes) :
    writes[k] = [filePath |-> c.filePath, lineNumber |-> c.lineNumber,
                 why |-> "attach", id |-> c.id]

\* C6: at the end of a pass, every unlinked task whose create call returned
\* an id and whose line the store let the pass rewrite has that id in its
\* line, is counted once in created and has a record under that id with its
\* file path and line number.
C6_CreationFlow ==
  PassEnd =>
    LET done == {k \in 1..Len(calls) :
                   CreateReturned(calls[k]) /\ Attached(calls[k])}
    IN /\ \A k \in done :
            LET c == calls[k]
            IN /\ HasIdComment(vault[c.filePath][c.lineNumber], c.id)
               /\ c.id \in DOMAIN syncState.tasks
               /\ syncState.tasks[c.id].filePath = c.filePath
               /\ syncState.tasks[c.id].lineNumber = c.lineNumber
       /\ lastResult.res.created = Cardinality(done)

\* C7: at the end of a pass created equals the number of create calls that
\* succeeded, whatever became of the line rewrite and of the close call.
C7_CreatedCountsCreateCalls ==
  PassEnd => lastResult.res.created = Count(calls, CreateReturned)

\* C8: a failure on one task adds an entry to errors and the pass goes on:
\* at its end every unlinked task has been submitted for creation and every
\* linked id has been reconciled.
C8_FailuresDoNotStopPass ==
  PassEnd =>
    LET isErr(e) == e = "Failed to create task"
        failed(c) == ~c.ok
    IN /\ Count(calls, IsCreate) = Len(Last.newObsidianTasks)
       /\ Last.reconciled = Last.syncedIds
       /\ lastResult.res.created + Count(lastResult.res.errors, isErr)
            = Len(Last.newObsidianTasks)
       /\ Len(lastResult.res.errors) >= Count(calls, failed)

\* a gateway call failed and a later task of the same pass was still served
C8_Witness ==
  /\ PassEnd
  /\ Len(lastResult.res.errors) = 1
  /\ \E k, m \in 1..Len(calls) :
       k < m /\ ~calls[k].ok /\ calls[m].ok /\ calls[m].id # calls[k].id

\* C9: no create call is ever issued for a task whose line carries a remote
\* id, whatever its content, its checkbox and the sync state.
C9_LinkedNeverCreated ==
  \A k \in 1..Len(calls) :
    calls[k].op = "create" =>
      /\ calls[k].todoistId = NoId
      /\ \A p \in Frames :
           \A id \in DOMAIN loc[p].syncedMap :
             ~(/\ loc[p].syncedMap[id].filePath = calls[k].filePath
               /\ loc[p].syncedMap[id].lineNumber = calls[k].lineNumber)

\* a pass created a task and also met a linked task without a record whose
\* content differs from the remote one
C9_Witness ==
  /\ PassEnd
  /\ Count(calls, CreateReturned) >= 1
  /\ \E id \in DOMAIN Last.syncedMap :
       /\ id \in DOMAIN Last.todoistTaskMap
       /\ Last.syncedMap[id].content # Last.todoistTaskMap[id].content

\* the ids of the pass that are linked locally and absent remotely
DeletedRemotely(l) ==
  {l.syncedIds[k] : k \in 1..Len(l.syncedIds)} \ DOMAIN l.todoistTaskMap

MarkedDeleted(id) ==
  \E k \in 1..Len(writes) : writes[k].why = "deleted" /\ writes[k].id = id

\* C10: for a linked task whose remote id is absent from the fetched set the
\* pass issues no gateway call for that id and rewrites the line, and with
\* that rewrite the checkbox is completed, the record of the id is removed
\* and completed goes up by one.
C10_DeletionDetection ==
  /\ [](PassEnd =>
          \A id \in DeletedRemotely(Last) :
            LET t == Last.syncedMap[id]
                isMarkErr(e) == e = "Failed to mark task completed"
            IN /\ \A k \in 1..Len(calls) : calls[k].id # id
               /\ \/ MarkedDeleted(id)
                  \/ Count(lastResult.res.errors, isMarkErr) >= 1
               /\ MarkedDeleted(id) =>
                    /\ BoxIsDone(vault[t.filePath][t.lineNumber])
                    /\ id \notin DOMAIN syncState.tasks)
  /\ [][\A p \in Frames :
          (pc[p] = "markWrite" /\ loc[p].why = "deleted" /\ writes' # writes)
            => /\ loc'[p].result.completed = loc[p].result.completed + 1
               /\ loc'[p].result.updated = loc[p].result.updated
               /\ loc'[p].result.conflicts = loc[p].result.conflicts
               /\ calls' = calls]_vars

\* a line that was open at the scan was completed because its id was gone
C10_Witness ==
  /\ PassEnd
  /\ \E id \in DeletedRemotely(Last) :
       /\ MarkedDeleted(id)
       /\ ~Last.syncedMap[id].isCompleted
       /\ lastResult.res.completed >= 1

\* ------------------------------------------------- linked-task properties
\* the linked ids of pass l that the fetch returned
Fetched(l) ==
  {l.syncedIds[k] : k \in 1..Len(l.syncedIds)} \cap DOMAIN l.todoistTaskMap

CallsFor(id) == SelectSeq(calls, LAMBDA c : c.id = id)
WritesFor(id) == SelectSeq(writes, LAMBDA w : w.id = id)

\* the step of caller p is a gateway call that resolved
CallResolved == Len(calls') = Len(calls) + 1 /\ calls'[Len(calls')].ok

\* the step of caller p is a vault.modify that resolved
WriteResolved == Len(writes') = Len(writes) + 1

\* the counters move by (u, c, k) in the step of caller p
Moves(p, u, c, k) ==
  /\ loc'[p].result.updated = loc[p].result.updated + u
  /\ loc'[p].result.completed = loc[p].result.completed + c
  /\ loc'[p].result.conflicts = loc[p].result.conflicts + k

BothFlags(id, b) ==
  /\ id \in DOMAIN syncState.tasks
  /\ syncState.tasks[id].obsidianCompleted = b
  /\ syncState.tasks[id].todoistCompleted = b

LocalDoneRemoteOpen(l, id) ==
  l.syncedMap[id].isCompleted /\ ~l.todoistTaskMap[id].isCompleted

\* C11: a linked task completed locally and open remotely gets, under every
\* policy, one close call and nothing else: no update call and no line
\* write; when the close call resolves the remote task is completed, both
\* flags of the record are true and completed goes up by one.
C11_LocalDoneClosesRemote ==
  /\ [](PassEnd =>
          \A id \in Fetched(Last) :
            LocalDoneRemoteOpen(Last, id) =>
              /\ Len(CallsFor(id)) = 1
              /\ CallsFor(id)[1].op = "close"
              /\ WritesFor(id) = <<>>
              /\ CallsFor(id)[1].ok =>
                   remote[id].isCompleted /\ BothFlags(id, TRUE))
  /\ [][\A p \in Frames :
          (pc[p] = "closeRemote" /\ CallResolved) =>
            /\ Moves(p, 0, 1, 0)
            /\ calls'[Len(calls')].op = "close"
            /\ UNCHANGED <<vault, writes, pendingConflicts>>]_vars

\* under the ask policy, a pass closed the remote task of a line that is
\* completed locally and whose text differs from the remote one
C11_Witness ==
  /\ PassEnd
  /\ conflictResolution = "ask-user"
  /\ \E id \in Fetched(Last) :
       /\ LocalDoneRemoteOpen(Last, id)
       /\ Last.syncedMap[id].content # Last.todoistTaskMap[id].content
       /\ CallsFor(id)[1].ok
       /\ lastResult.res.completed >= 1

LocalOpenRemoteDone(l, id) ==
  ~l.syncedMap[id].isCompleted /\ l.todoistTaskMap[id].isCompleted

\* the record of id was written by this pass for the task of pass l
Refreshed(l, id) ==
  /\ id \in DOMAIN syncState.tasks
  /\ syncState.tasks[id].lastSynced = now
  /\ syncState.tasks[id].filePath = l.syncedMap[id].filePath
  /\ syncState.tasks[id].lineNumber = l.syncedMap[id].lineNumber
  /\ syncState.tasks[id].contentHash = generateContentHash(l.syncedMap[id])

LineOf(l, id) == vault[l.syncedMap[id].filePath][l.syncedMap[id].lineNumber]

\* C12: a linked task completed remotely and open locally: under todoist-wins
\* the line's checkbox is completed, the record is updated with both flags
\* true and completed goes up by one, with no gateway call; under
\* obsidian-wins the remote task is reopened, the record is updated with both
\* flags false and updated goes up by one, with no line write.
C12_RemoteDoneByPolicy ==
  /\ [](PassEnd =>
          \A id \in Fetched(Last) :
            LocalOpenRemoteDone(Last, id) =>
              /\ conflictResolution = "todoist-wins" =>
                   /\ CallsFor(id) = <<>>
                   /\ Len(WritesFor(id)) <= 1
                   /\ WritesFor(id) # <<>> =>
                        /\ BoxIsDone(LineOf(Last, id))
                        /\ Refreshed(Last, id)
                        /\ BothFlags(id, TRUE)
              /\ conflictResolution = "obsidian-wins" =>
                   /\ WritesFor(id) = <<>>
                   /\ Len(CallsFor(id)) = 1
                   /\ CallsFor(id)[1].op = "reopen"
                   /\ CallsFor(id)[1].ok =>
                        /\ ~remote[id].isCompleted
                        /\ Refreshed(Last, id)
                        /\ BothFlags(id, FALSE))
  /\ [][\A p \in Frames :
          /\ (pc[p] = "markWrite" /\ loc[p].why = "todoist-wins"
                /\ WriteResolved) =>
               Moves(p, 0, 1, 0) /\ UNCHANGED <<remote, calls>>
          /\ (pc[p] = "reopen" /\ CallResolved) =>
               /\ Moves(p, 1, 0, 0)
               /\ calls'[Len(calls')].op = "reopen"
               /\ UNCHANGED <<vault, writes>>]_vars

\* under todoist-wins a pass completed the line of a task closed remotely
C12_Witness ==
  /\ PassEnd
  /\ conflictResolution = "todoist-wins"
  /\ \E id \in Fetched(Last) :
       /\ LocalOpenRemoteDone(Last, id)
       /\ WritesFor(id) # <<>>
       /\ lastResult.res.completed >= 1

\* C13: under the ask policy a linked task completed remotely and open locally
\* is handled in the same pass: the line's checkbox is completed, the record
\* is updated with both flags true and conflicts goes up by one (completed
\* does not); no gateway call is made and nothing waits for a decision.
C13_AskAppliesRemoteDone ==
  /\ [](PassEnd =>
          \A id \in Fetched(Last) :
            (LocalOpenRemoteDone(Last, id) /\ conflictResolution = "ask-user")
              => /\ CallsFor(id) = <<>>
                 /\ Len(WritesFor(id)) <= 1
                 /\ WritesFor(id) = <<>> => Len(lastResult.res.errors) >= 1
                 /\ WritesFor(id) # <<>> =>
                      /\ BoxIsDone(LineOf(Last, id))
                      /\ Refreshed(Last, id)
                      /\ BothFlags(id, TRUE))
  /\ [][\A p \in Frames :
          (pc[p] = "markWrite" /\ loc[p].why = "ask" /\ WriteResolved) =>
            Moves(p, 0, 0, 1) /\ UNCHANGED <<remote, calls>>]_vars

\* under the ask policy a pass completed the line of a task closed remotely
C13_Witness ==
  /\ PassEnd
  /\ conflictResolution = "ask-user"
  /\ \E id \in Fetched(Last) :
       /\ LocalOpenRemoteDone(Last, id)
       /\ WritesFor(id) # <<>>
       /\ lastResult.res.conflicts >= 1

SameFlags(l, id) ==
  l.syncedMap[id].isCompleted = l.todoistTaskMap[id].isCompleted

FieldsDiffer(l, id) ==
  \/ l.syncedMap[id].content # l.todoistTaskMap[id].content
  \/ l.syncedMap[id].priority # l.todoistTaskMap[id].priority
  \/ l.syncedMap[id].dueDate # l.todoistTaskMap[id].due

\* caller p takes the next linked id in this step
Dispatches(p) ==
  pc[p] = "linked" /\ loc'[p].reconciled # loc[p].reconciled

\* C14: under the ask policy a linked task with equal completion flags and a
\* difference in content, priority or due date gets no gateway call and no
\* line write; exactly one conflict record is enqueued for it, conflicts goes
\* up by one, updated and completed stay.
C14_AskQueuesConflict ==
  /\ [](PassEnd =>
          \A id \in Fetched(Last) :
            (SameFlags(Last, id) /\ FieldsDiffer(Last, id)
               /\ conflictResolution = "ask-user")
              => CallsFor(id) = <<>> /\ WritesFor(id) = <<>>)
  /\ [][\A p \in Frames :
          LET id == CurId(loc[p])
          IN (/\ Dispatches(p)
              /\ conflictResolution = "ask-user"
              /\ id \in DOMAIN loc[p].todoistTaskMap
              /\ SameFlags(loc[p], id) /\ FieldsDiffer(loc[p], id))
             => /\ Len(pendingConflicts') = Len(pendingConflicts) + 1
                /\ SubSeq(pendingConflicts', 1, Len(pendingConflicts))
                     = pendingConflicts
                /\ LET c == pendingConflicts'[Len(pendingConflicts')]
                       t == loc[p].syncedMap[id]
                   IN /\ c.todoistId = id
                      /\ c.filePath = t.filePath
                      /\ c.lineNumber = t.lineNumber
                      /\ c.obsidianContent = t.content
                      /\ c.todoistContent = loc[p].todoistTaskMap[id].content
                /\ Moves(p, 0, 0, 1)
                /\ pc'[p] \in {"linked", "finish"}
                /\ UNCHANGED <<vault, remote, calls, writes>>]_vars

\* under the ask policy a pass met a task whose text differs from the
\* remote one and queued a conflict for it
C14_Witness ==
  /\ PassEnd
  /\ conflictResolution = "ask-user"
  /\ lastResult.res.conflicts >= 1
  /\ \E id \in Fetched(Last) :
       /\ SameFlags(Last, id) /\ FieldsDiffer(Last, id)
       /\ \E k \in 1..Len(pendingConflicts) : pendingConflicts[k].todoistId = id

\* C15: a linked task whose completion flags and whose content, priority and
\* due date are equal on both sides only has its record refreshed: no gateway
\* call, no line write, no conflict record, no counter moves.
C15_UnchangedOnlyRefreshes ==
  /\ [](PassEnd =>
          \A id \in Fetched(Last) :
            (SameFlags(Last, id) /\ ~FieldsDiffer(Last, id))
              => /\ CallsFor(id) = <<>> /\ WritesFor(id) = <<>>
                 /\ Refreshed(Last, id)
                 /\ BothFlags(id, Last.syncedMap[id].isCompleted))
  /\ [][\A p \in Frames :
          LET id == CurId(loc[p])
          IN (/\ Dispatches(p)
              /\ id \in DOMAIN loc[p].todoistTaskMap
              /\ SameFlags(loc[p], id) /\ ~FieldsDiffer(loc[p], id))
             => /\ Moves(p, 0, 0, 0)
                /\ loc'[p].result.errors = loc[p].result.errors
                /\ pc'[p] \in {"linked", "finish"}
                /\ \A x \in DOMAIN syncState.tasks \ {id} :
                     /\ x \in DOMAIN syncState'.tasks
                     /\ syncState'.tasks[x] = syncState.tasks[x]
                /\ UNCHANGED <<vault, remote, calls, writes,
                               pendingConflicts>>]_vars

\* a pass met a task that is completed on both sides with the same text
C15_Witness ==
  /\ PassEnd
  /\ \E id \in Fetched(Last) :
       /\ SameFlags(Last, id) /\ ~FieldsDiffer(Last, id)
       /\ Last.syncedMap[id].isCompleted
       /\ BothFlags(id, TRUE)

\* the remote task r holds the fields of the local task t that an update
\* call carries: content, priority and, when t has one, the due date
CarriesLocal(r, t) ==
  /\ r.content = t.content
  /\ r.priority = t.priority
  /\ t.dueDate # NoDate => r.due = t.dueDate

\* C16: under obsidian-wins a linked task with equal completion flags and a
\* difference in content, priority or due date gets exactly one update call
\* carrying the local fields and no line write; when the call resolves the
\* record is updated and updated goes up by one.
C16_LocalWinsUpdatesRemote ==
  /\ [](PassEnd =>
          \A id \in Fetched(Last) :
            (SameFlags(Last, id) /\ FieldsDiffer(Last, id)
               /\ conflictResolution = "obsidian-wins")
              => /\ WritesFor(id) = <<>>
                 /\ Len(CallsFor(id)) = 1
                 /\ CallsFor(id)[1].op = "update"
                 /\ CallsFor(id)[1].ok =>
                      /\ CarriesLocal(remote[id], Last.syncedMap[id])
                      /\ Refreshed(Last, id)
                      /\ BothFlags(id, Last.syncedMap[id].isCompleted))
  /\ [][\A p \in Frames :
          (pc[p] = "updateRemote" /\ CallResolved) =>
            LET id == CurId(loc[p])
            IN /\ Moves(p, 1, 0, 0)
               /\ calls'[Len(calls')].op = "update"
               /\ calls'[Len(calls')].id = id
               /\ CarriesLocal(remote'[id], CurTask(loc[p]))
               /\ remote'[id].isCompleted = remote[id].isCompleted
               /\ UNCHANGED <<vault, writes, pendingConflicts>>]_vars

\* under obsidian-wins a pass pushed a local text to the remote task
C16_Witness ==
  /\ PassEnd
  /\ conflictResolution = "obsidian-wins"
  /\ lastResult.res.updated >= 1
  /\ \E id \in Fetched(Last) :
       /\ SameFlags(Last, id)
       /\ Last.syncedMap[id].content # Last.todoistTaskMap[id].content
       /\ CallsFor(id)[1].ok
       /\ remote[id].content = Last.syncedMap[id].content

\* the line is a task line that starts with the text of remote task r and
\* carries its priority, due date and completion, and the id comment
BuiltFrom(line, r, id) ==
  /\ IsSyncedTaskLine(line)
  /\ SubSeq(TaskContent(line), 1, Len(r.content)) = r.content
  /\ extractPriority(TaskContent(line)) = r.priority
  /\ extractDueDate(TaskContent(line)) = r.due
  /\ BoxIsDone(line) = r.isCompleted
  /\ HasIdComment(line, id)

\* C17: under todoist-wins a linked task with equal completion flags and a
\* difference in content, priority or due date gets no gateway call; its line
\* is rewritten from the remote content, priority, due date and completion,
\* and with the rewrite the record is updated and updated goes up by one.
C17_RemoteWinsRewritesLine ==
  /\ [](PassEnd =>
          \A id \in Fetched(Last) :
            (SameFlags(Last, id) /\ FieldsDiffer(Last, id)
               /\ conflictResolution = "todoist-wins")
              => /\ CallsFor(id) = <<>>
                 /\ Len(WritesFor(id)) <= 1
                 /\ WritesFor(id) = <<>> => Len(lastResult.res.errors) >= 1
                 /\ WritesFor(id) # <<>> =>
                      /\ BuiltFrom(LineOf(Last, id),
                                   Last.todoistTaskMap[id], id)
                      /\ Refreshed(Last, id)
                      /\ BothFlags(id, Last.syncedMap[id].isCompleted))
  /\ [][\A p \in Frames :
          (pc[p] = "rewriteWrite" /\ WriteResolved) =>
            /\ Moves(p, 1, 0, 0)
            /\ writes'[Len(writes')].id = CurId(loc[p])
            /\ UNCHANGED <<remote, calls, pendingConflicts>>]_vars

\* under todoist-wins a pass rewrote a line whose text and due date differed
\* from the remote ones
C17_Witness ==
  /\ PassEnd
  /\ conflictResolution = "todoist-wins"
  /\ lastResult.res.updated >= 1
  /\ \E id \in Fetched(Last) :
       /\ SameFlags(Last, id)
       /\ Last.syncedMap[id].content # Last.todoistTaskMap[id].content
       /\ Last.syncedMap[id].dueDate # Last.todoistTaskMap[id].due
       /\ WritesFor(id) # <<>>

\* ----------------------------------------------------- pass-level properties
LinkedIds(l) == {l.syncedIds[k] : k \in 1..Len(l.syncedIds)}

\* C18: after a pass that completed normally, every id that had a record when
\* the pass started and is absent from the pass's linked set and from the
\* fetched map has no record.
C18_OrphanCleanup ==
  PassEnd =>
    \A id \in DOMAIN Last.before.tasks :
      (id \notin LinkedIds(Last) /\ id \notin DOMAIN Last.todoistTaskMap)
        => id \notin DOMAIN syncState.tasks

\* the pass changed neither a document nor a remote task
LeftAsFound(l) == vault = l.before.vault /\ remote = l.before.remote

\* C19: passes repeated with no external change settle: a later pass that runs
\* without any failure and leaves every document and every remote task as it
\* found them reports all counters zero.
C19_RepeatedPassesSettle ==
  (PassEnd /\ now >= 2 /\ failures = 0 /\ LeftAsFound(Last))
    => NoCounters(lastResult.res)

\* C20: the step that ends a pass normally sets lastFullSync to the time of
\* the pass, whether or not errors were recorded; every other step, a
\* rejected, an unconfigured and a fetch-aborted call included, leaves it
\* unchanged; it never decreases.
C20_LastFullSync ==
  /\ [](PassEnd => syncState.lastFullSync = now)
  /\ [][/\ \A p \in Frames :
             (pc[p] = "finish" /\ pc'[p] = "idle") =>
               syncState'.lastFullSync = now
        /\ (\A p \in Frames : ~(pc[p] = "finish" /\ pc'[p] = "idle")) =>
             syncState'.lastFullSync = syncState.lastFullSync
        /\ syncState'.lastFullSync >= syncState.lastFullSync]_vars

\* a second pass ended normally with an error recorded and stamped its time
C20_Witness ==
  /\ PassEnd
  /\ now >= 2
  /\ lastResult.res.errors # <<>>
  /\ syncState.lastFullSync = now

\* ------------------------------------------------ unlinked remote tasks
\* some line of vault v carries the identifier comment of id
LinkedIn(v, id) ==
  \E f \in FileSet : \E k \in 1..Len(v[f]) : HasIdComment(v[f][k], id)

\* the fetched ids of pass l that had neither a record nor a line when the
\* pass was accepted
Invisible(l) ==
  {id \in DOMAIN l.todoistTaskMap :
     id \notin DOMAIN l.before.tasks /\ ~LinkedIn(l.before.vault, id)}

\* C21: a fetched remote task without a record and without a line that links
\* to it is invisible to the pass: at the end of the pass no gateway call was
\* issued for its id, no document was written for it, no line carries its id,
\* it has no record and the remote task is as it was.
C21_UnlinkedRemoteInvisible ==
  PassEnd =>
    \A id \in Invisible(Last) :
      /\ CallsFor(id) = <<>>
      /\ WritesFor(id) = <<>>
      /\ ~LinkedIn(vault, id)
      /\ id \notin DOMAIN syncState.tasks
      /\ id \in DOMAIN remote /\ remote[id] = Last.before.remote[id]

\* a pass that created a task and wrote its line left another remote task,
\* unknown to the vault, alone
C21_Witness ==
  /\ PassEnd
  /\ Invisible(Last) # {}
  /\ Count(calls, CreateReturned) >= 1
  /\ writes # <<>>

\* ------------------------------------------------- the command of the editor
\* the step belongs to a pass in flight
PassMoves ==
  \E p \in Frames :
    pc[p] # "idle" /\ <<pc'[p], loc'[p]>> # <<pc[p], loc[p]>>

\* the step is the return of a createTaskFromLine that succeeded
CommandSucceeds ==
  /\ pc[CommandFrame] = "commandWrite"
  /\ pc'[CommandFrame] = "idle"
  /\ loc'[CommandFrame].result.success

\* the record createTaskFromLine inserts for the task it created
MinimalRecord(l) ==
  SyncedTask(l.newId, l.filePath, l.lineNumber, EmptyHash, now, FALSE, FALSE)

\* C22 as stated: the sync state (records and lastFullSync) changes only in a
\* step taken while a performSync pass is in progress.
C22_StateChangesOnlyInPass ==
  [][syncState' # syncState => \E p \in Frames : pc[p] # "idle"]_vars

\* C22 amended: the sync state changes only in a step of a pass in flight or
\* in the return of a createTaskFromLine that succeeded, which inserts the
\* minimal record of the new id and changes nothing else of the state.
C22_StateChangesInPassOrCommand ==
  [][syncState' # syncState =>
       \/ PassMoves
       \/ /\ CommandSucceeds
          /\ syncState' =
               [syncState EXCEPT !.tasks =
                  Put(@, loc[CommandFrame].newId,
                      MinimalRecord(loc[CommandFrame]))]]_vars

\* the command inserted a record before any pass was accepted
C22_Witness ==
  /\ now = 0
  /\ ~isSyncing
  /\ loc[CommandFrame].result.success
  /\ syncState.tasks # EmptyMap

\* the line is a list marker, a bullet or a number, and nothing else
OnlyMarker(line) ==
  /\ Trim(line) # <<>>
  /\ \A k \in 1..Len(Trim(line)) : Kind(Trim(line)[k]) \in {"bullet", "number"}

\* the lines createFromLine has to refuse
Refusable(line) ==
  Has(line, IsId) \/ Trim(line) = <<>> \/ OnlyMarker(line)

\* C23: createTaskFromLine makes no gateway call and returns success = false
\* when the line carries a remote-id comment, is empty, or holds nothing but
\* a list bullet or number prefix: such a call never gets to createTask.
C23_RefusableLineMakesNoCall ==
  pc[CommandFrame] # "idle" => ~Refusable(loc[CommandFrame].lineContent)

\* C24: when the createTask call of createTaskFromLine rejects, the command
\* returns success = false with a message that carries the error, no document
\* is written and no record is inserted.
C24_CreateFailureLeavesNoTrace ==
  [][(pc[CommandFrame] = "commandCreate" /\ pc'[CommandFrame] = "idle") =>
       /\ ~loc'[CommandFrame].result.success
       /\ \E err \in Errors :
            loc'[CommandFrame].result.message = <<"Failed to create task", err>>
       /\ UNCHANGED <<vault, syncState, remote, nextId>>]_vars

\* the command failed at its create call: no id was ever handed out
C24_Witness ==
  /\ pc[CommandFrame] = "idle"
  /\ loc[CommandFrame].served >= 1
  /\ Len(loc[CommandFrame].result.message) = 2
  /\ nextId = FirstFreshId

\* the records that createTaskFromLine inserted before pass l was accepted
CommandRecords(l) ==
  {id \in DOMAIN l.before.tasks : l.before.tasks[id].contentHash = EmptyHash}

\* the scan of pass l found a task on the line of record r
ScannedAt(l, r) ==
  {k \in 1..Len(l.obsidianTasks) :
     /\ l.obsidianTasks[k].filePath = r.filePath
     /\ l.obsidianTasks[k].lineNumber = r.lineNumber}

\* C25: when createTaskFromLine succeeds with the new id X, the line it was
\* run on is a checkbox line with the sync marker and the id comment of X and
\* the sync state has a record X with that file, that line and an empty
\* fingerprint; a full pass accepted afterwards, while the line still carries
\* X, takes the line as linked to X and issues no create call for it.
C25_CommandLinksLine ==
  /\ [][CommandSucceeds =>
          LET l == loc[CommandFrame]
              line == vault'[l.filePath][l.lineNumber]
          IN /\ IsSyncedTaskLine(line)
             /\ HasIdComment(line, l.newId)
             /\ l.newId \in DOMAIN syncState'.tasks
             /\ syncState'.tasks[l.newId] = MinimalRecord(l)]_vars
  /\ [](PassEnd =>
          \A id \in CommandRecords(Last) :
            LET r == Last.before.tasks[id]
            IN HasIdComment(Last.before.vault[r.filePath][r.lineNumber], id)
                 => /\ \A k \in ScannedAt(Last, r) :
                         Last.obsidianTasks[k].todoistId = id
                    /\ \A k \in 1..Len(calls) :
                         ~(/\ calls[k].op = "create"
                           /\ calls[k].filePath = r.filePath
                           /\ calls[k].lineNumber = r.lineNumber))

\* ------------------------------------------------- more on the two phases
\* the unlinked task of pass l that call c was made for
NewTaskOf(l, c) ==
  LET at == {k \in 1..Len(l.newObsidianTasks) :
               /\ l.newObsidianTasks[k].filePath = c.filePath
               /\ l.newObsidianTasks[k].lineNumber = c.lineNumber}
  IN l.newObsidianTasks[Min(at)]

\* the places in calls of the close calls made for an unlinked task
NewCloses ==
  {k \in 1..Len(calls) : calls[k].op = "close" /\ calls[k].todoistId = NoId}

\* C26: in the creation phase a close call is issued exactly for the unlinked
\* tasks that are completed locally: it names the id the create call of the
\* same task returned and is the next gateway call after that create call,
\* once the line has been rewritten; an open task and a task whose create
\* call failed get no close call.
C26_CompletedNewTaskIsClosed ==
  PassEnd =>
    /\ \A k \in 1..Len(calls) :
         (CreateReturned(calls[k]) /\ Attached(calls[k])) =>
           IF NewTaskOf(Last, calls[k]).isCompleted
           THEN /\ k + 1 \in NewCloses
                /\ calls[k + 1].id = calls[k].id
                /\ Len(SelectSeq(CallsFor(calls[k].id),
                                 LAMBDA c : c.op = "close")) = 1
           ELSE \A m \in NewCloses : calls[m].id # calls[k].id
    /\ \A m \in NewCloses :
         /\ m > 1
         /\ CreateReturned(calls[m - 1])
         /\ calls[m - 1].id = calls[m].id
         /\ calls[m - 1].filePath = calls[m].filePath
         /\ calls[m - 1].lineNumber = calls[m].lineNumber
         /\ NewTaskOf(Last, calls[m]).isCompleted

\* one pass created an open task and a completed one and closed one of them
C26_Witness ==
  /\ PassEnd
  /\ Count(calls, CreateReturned) = 2
  /\ Cardinality(NewCloses) = 1

\* the places in the scan of pass l of the lines that carry id
LinesOf(l, id) ==
  {k \in 1..Len(l.obsidianTasks) : l.obsidianTasks[k].todoistId = id}

SameLine(a, t) == a.filePath = t.filePath /\ a.lineNumber = t.lineNumber

LinkedCounters(res) == res.updated + res.completed + res.conflicts

\* C27: when several scanned lines carry the same id, the pass reconciles
\* the id against the last of them in scan order and once: every gateway
\* call and every write for the id is made for that line, the other lines
\* are left as they were, the record names that line, and the counters of
\* the linked phase go up by at most one for each id the loop has taken.
C27_LastDuplicateWins ==
  /\ [](PassEnd =>
          /\ Len(Last.reconciled) = Cardinality(LinkedIds(Last))
          /\ \A id \in LinkedIds(Last) :
               LET last == Last.obsidianTasks[Max(LinesOf(Last, id))]
               IN /\ Last.syncedMap[id] = last
                  /\ \A k \in 1..Len(calls) :
                       calls[k].id = id => SameLine(calls[k], last)
                  /\ \A k \in 1..Len(writes) :
                       writes[k].id = id => SameLine(writes[k], last)
                  /\ \A k \in LinesOf(Last, id) \ {Max(LinesOf(Last, id))} :
                       LET t == Last.obsidianTasks[k]
                       IN vault[t.filePath][t.lineNumber] =
                            Last.before.vault[t.filePath][t.lineNumber]
                  /\ (id \in DOMAIN syncState.tasks /\
                      syncState.tasks[id].lastSynced = now)
                       => SameLine(syncState.tasks[id], last))
  /\ [][\A p \in Frames :
          (pc[p] \notin {"idle", "fetch"} /\ pc'[p] # "fetch") =>
            LinkedCounters(loc'[p].result) - LinkedCounters(loc[p].result)
              <= loc'[p].j - loc[p].j
            /\ loc'[p].j - loc[p].j <= 1]_vars

\* an id is on a completed line and, after it, on an open line; the remote
\* task is completed and the pass acted on the open line
C27_Witness ==
  /\ PassEnd
  /\ \E id \in Fetched(Last) :
       /\ Cardinality(LinesOf(Last, id)) = 2
       /\ Last.obsidianTasks[Min(LinesOf(Last, id))].isCompleted
       /\ LocalOpenRemoteDone(Last, id)
       /\ LinkedCounters(lastResult.res) >= 1
       /\ \/ WritesFor(id) # <<>>
          \/ \E k \in 1..Len(calls) : calls[k].id = id /\ calls[k].ok

\* the step is a close or reopen call of the linked phase that rejects, with
\* a not-found error as with any other: the code does not look at the error
CloseOrReopenRejects(p) ==
  /\ pc[p] \in {"closeRemote", "reopen"}
  /\ Len(calls') = Len(calls) + 1
  /\ ~calls'[Len(calls')].ok

\* C28: a close or reopen call of the linked phase that fails because the
\* remote task is not found adds no entry to the errors of the result.
C28_NotFoundIsAbsorbed ==
  [][\A p \in Frames :
       CloseOrReopenRejects(p) =>
         loc'[p].result.errors = loc[p].result.errors]_vars

\* ------------------------------------------------------------ the service
\* C29: verifyToken returns false when the test call fails for an
\* authentication reason and lets the error through, instead of returning
\* false, when the call fails for a network reason.
C29_VerifyTellsTokenFromNetwork ==
  /\ loc[VerifyFrame].cause = "auth" => loc[VerifyFrame].result = "false"
  /\ loc[VerifyFrame].cause = "network" => loc[VerifyFrame].result = "thrown"

\* C30: getTasks returns only after the last page: the value is all the
\* tasks of the service, each once and in order, after as many requests as
\* the service has pages, or after one request when the service answers
\* with a plain array; when a request rejects, getTasks throws and hands
\* out no task.
C30_ListDrainsPages ==
  [][(pc[ListFrame] = "listPage" /\ pc'[ListFrame] = "idle") =>
       LET l == loc[ListFrame]
           r == loc'[ListFrame].result
       IN IF failures' # failures
          THEN r.kind = "thrown" /\ r.tasks = <<>>
          ELSE /\ r.kind = "ok"
               /\ r.tasks = ListedIds
               /\ r.requests = IF l.format = "array" THEN 1 ELSE NumPages
               /\ r.requests = l.requests + 1]_vars

\* five tasks came in three pages
C30_Witness ==
  /\ loc[ListFrame].result.kind = "ok"
  /\ loc[ListFrame].result.requests = 3
  /\ Len(loc[ListFrame].result.tasks) = 5

\* what the round trip compares
Fields(t) ==
  <<t.content, t.isCompleted, t.priority, t.dueDate, t.labels, t.todoistId>>

\* C31: parsing the line that buildTaskLine makes of a well-formed task gives
\* back the content, completed flag, priority, due date, labels and remote id
\* of that task, also when the task has labels.
C31_RoundTrip ==
  (pc[CodecFrame] = "idle" /\ loc[CodecFrame].op = "buildTaskLine") =>
    Fields(loc[CodecFrame].parsed) = Fields(loc[CodecFrame].task)

\* C32: updateTaskCompletion changes at most the checkbox of a task line,
\* returns a line whose checkbox is already as asked unchanged, and applying
\* it twice gives what applying it once gives, also when the text of the task
\* holds the glyph of a checkbox.
C32_SetCompletedOnlyCheckbox ==
  loc[CodecFrame].op = "updateTaskCompletion" =>
    LET c == loc[CodecFrame]
    IN /\ c.out = [c.line EXCEPT ![2] = IF c.flag THEN BoxDone ELSE BoxOpen]
       /\ updateTaskCompletion(c.out, c.flag) = c.out
       /\ BoxIsDone(c.line) = c.flag => c.out = c.line

\* the remote tasks that the plugin created
CreatedIds == {IdStr[k] : k \in FirstFreshId..(nextId - 1)}

\* the lines a created task can belong to: tagged task lines that carry no
\* id yet or the id of a created task
LinesForCreated ==
  {<<f, k>> \in FileSet \X (1..2) :
     /\ k <= Len(vault[f])
     /\ IsSyncedTaskLine(vault[f][k])
     /\ LET id == parseTaskLine(vault[f][k], k, f).todoistId
        IN id = NoId \/ id \in CreatedIds}

\* C33: over any number of passes no line gets a second remote task: the
\* created remote tasks are never more than the lines they were created for,
\* also when the rewrite that attaches the id failed.
C33_OneCreatePerLine == Cardinality(CreatedIds) <= Cardinality(LinesForCreated)

\* C35: the conflict queue never holds two conflicts for one remote id, also
\* when passes are repeated under ask-user while the mismatch stays.
C35_OneConflictPerTask ==
  \A a, b \in 1..Len(pendingConflicts) :
    pendingConflicts[a].todoistId = pendingConflicts[b].todoistId => a = b

\* C36: when the update call of an obsidian-wins pass resolves, the remote
\* task has the content, the priority and the due date of the local task,
\* also when the local task has no due date, so that the two no longer differ.
C36_UpdateMirrorsLocal ==
  [][\A p \in Frames :
       (pc[p] = "updateRemote" /\ CallResolved /\ calls'[Len(calls')].ok) =>
         LET id == CurId(loc[p])
             t == CurTask(loc[p])
         IN /\ remote'[id].content = t.content
            /\ remote'[id].priority = t.priority
            /\ remote'[id].due = t.dueDate
            /\ ~hasChanges(t, remote'[id])]_vars

\* the line without its identifier comments
WithoutId(line) == SelectSeq(line, LAMBDA t : ~IsId(t))

\* C39: the write that attaches the id of a new task leaves every token of
\* the line as it was, the indentation included, and the line then has one
\* identifier comment, with the new id, which the parser reads back.
C39_AttachChangesOnlyIdComment ==
  [][\A p \in Frames :
       (pc[p] = "attachWrite" /\ WriteResolved) =>
         LET t == CurNew(loc[p])
             old == vault[t.filePath][t.lineNumber]
             new == vault'[t.filePath][t.lineNumber]
         IN /\ WithoutId(new) = WithoutId(old)
            /\ Count(new, IsId) = 1
            /\ parseTaskLine(new, t.lineNumber, t.filePath).todoistId =
                 loc[p].newId]_vars

\* C37: the line that a todoist-wins rewrite builds parses to the content,
\* priority and due date of the remote task and to the labels the line had
\* before, also when the line has labels, so that the two no longer differ.
C37_RewriteMirrorsRemote ==
  (pc[CodecFrame] = "idle" /\
   loc[CodecFrame].op = "updateObsidianTaskFromTodoist") =>
    LET c == loc[CodecFrame]
    IN /\ c.parsed.content = c.todoistTask.content
       /\ c.parsed.priority = c.todoistTask.priority
       /\ c.parsed.dueDate = c.todoistTask.due
       /\ c.parsed.labels = c.task.labels
       /\ ~hasChanges(c.parsed, c.todoistTask)

\* C38: the sync state in the data file is the state handed to the most
\* recent saveSyncState: saving the settings neither puts an older sync state
\* back nor drops it.
C38_StoredStateIsLastSaved == loc[StoreFrame].stored = loc[StoreFrame].saved

\* C34: when a pass and the command rewrite different lines of one file,
\* both changes are in the file afterwards, however their reads and writes
\* interleave: the line the pass attached an id to carries it and the line
\* the command linked carries the id of its record.
C34_NoLostRewrite ==
  \A k \in 1..Len(writes) : \A id \in DOMAIN syncState.tasks :
    LET w == writes[k]
        r == syncState.tasks[id]
    IN (/\ w.why = "attach"
        /\ r.contentHash = EmptyHash
        /\ r.filePath = w.filePath
        /\ r.lineNumber # w.lineNumber)
         => /\ HasIdComment(vault[w.filePath][w.lineNumber], w.id)
            /\ HasIdComment(vault[r.filePath][r.lineNumber], id)

\* C40: the command never asks the remote service to create a task with
\* empty content, also for a checkbox line that holds nothing but the sync
\* tag and metadata.
C40_CommandContentNotEmpty ==
  pc[CommandFrame] = "commandCreate" => loc[CommandFrame].cleanContent # <<>>

====
